---- MODULE Spec2Model ----
(***************************************************************************)
(* Model of the feedback-demo browser application: the BLE device handle   *)
(* (haptic/vibrator.js), the protocol encoders (haptic/protocols/*.js),    *)
(* the legacy Coyote V2 write gate (coyote.js, connectV2) and the session  *)
(* loop (main.js).                                                         *)
(*                                                                         *)
(* JavaScript runs one task at a time: an action of this model is what a   *)
(* task does between two suspension points, together with the microtask    *)
(* continuations that run before the next timer, BLE or UI event.          *)
(* An intensity is the rational i / IntensityDen, held as its numerator i. *)
(***************************************************************************)
EXTENDS Integers, Sequences, FiniteSets, TLC

\* ------------------------------------------------------------------------
\* Bounds of the model
\* ------------------------------------------------------------------------
IntensityDen == 10
MaxSendNum == 2
MaxRequests == 4
MaxTimers == 2
MaxHandleCalls == 3
MaxLoops == 2
MaxSessions == 2
\* number of prompts of a session (sessionPrompts.length)
NumPrompts == 2
OverRange == 5
MaxMotors == 3
MaxCoyoteCalls == 3

SendIntensities == 1..MaxSendNum
\* the lowest and the highest of them
EndIntensities == {1, MaxSendNum}

\* ------------------------------------------------------------------------
\* Arithmetic helpers
\* ------------------------------------------------------------------------
\* Math.round(n / d) for d > 0: the nearest integer, halves towards +infinity
RoundDiv(n, d) == (2 * n + d) \div (2 * d)

Max2(a, b) == IF a >= b THEN a ELSE b
Min2(a, b) == IF a <= b THEN a ELSE b

\* ========================================================================
\* Protocol encoders (haptic/protocols/*.js)
\* ========================================================================
ProtocolIds == {"lovense", "satisfyer", "wevibe", "lelo", "kiiroo", "svakom",
                "magicmotion", "mysteryvibe", "aneros", "coyote", "coyote-v2"}

\* maxIntensity of each protocol object
MaxIntensity(p) ==
  CASE p = "lovense" -> 20
    [] p = "satisfyer" -> 100
    [] p = "wevibe" -> 15
    [] p = "coyote" -> 200
    [] p = "coyote-v2" -> 2047
    [] OTHER -> 255

\* keepaliveInterval in ms, 0 where the protocol declares none
KeepaliveInterval(p) ==
  CASE p = "svakom" -> 1000
    [] p = "satisfyer" -> 3000
    [] p = "coyote" -> 100
    [] p = "coyote-v2" -> 100
    [] OTHER -> 0

\* the protocols that define sendCommand / stopCommand
HasSendCommand(p) == p = "coyote-v2"
HasStopCommand(p) == p = "coyote-v2"

\* a value stored into a Uint8Array element
ToUint8(x) == x % 256

\* bitwise OR of two bytes
RECURSIVE BitOr8(_, _)
BitOr8(a, b) ==
  IF a = 0 THEN b
  ELSE IF b = 0 THEN a
  ELSE Max2(a % 2, b % 2) + 2 * BitOr8(a \div 2, b \div 2)

\* the decimal digits of n >= 0 as character codes
RECURSIVE DigitCodes(_)
DigitCodes(n) ==
  IF n < 10 THEN <<48 + n>> ELSE Append(DigitCodes(n \div 10), 48 + (n % 10))

\* String(n) as character codes
NumberCodes(n) == IF n < 0 THEN <<45>> \o DigitCodes(0 - n) ELSE DigitCodes(n)

\* TextEncoder().encode("Vibrate:" + level + ";")
VibratePrefix == <<86, 105, 98, 114, 97, 116, 101, 58>>
LovenseText(level) == VibratePrefix \o NumberCodes(level) \o <<59>>

\* level = Math.round(intensity * this.maxIntensity)
RawLevel(p, i) == RoundDiv(i * MaxIntensity(p), IntensityDen)

\* Math.min(hi, Math.max(lo, x))
Clamp(x, lo, hi) == Min2(hi, Max2(lo, x))

\* encodeFrequency(hz)
EncodeFrequency_CoarseMiddle(hz) ==
  LET h == Clamp(hz, 10, 1000)
  IN IF h <= 100 THEN h
     ELSE IF h <= 600 THEN RoundDiv(h - 100, 10) + 100
     ELSE RoundDiv(h - 600, 10) + 200

EncodeFrequency(hz) ==
  LET h == Clamp(hz, 10, 1000)
  IN IF h <= 100 THEN h
     ELSE IF h <= 600 THEN RoundDiv(h - 100, 5) + 100
     ELSE RoundDiv(h - 600, 10) + 200

\* coyote.defaultWaveform
DefaultWaveform == [freq |-> <<100, 100, 100, 100>>,
                    intensity |-> <<50, 50, 50, 50>>]

\* this._state.waveformX: null until buildFullCommand sets it
NoWaveform == [freq |-> <<>>, intensity |-> <<>>]
WaveformOr(w) == IF w = NoWaveform THEN DefaultWaveform ELSE w

\* cmd[1] = (sequence << 4) | (modeB << 2) | modeA, stored in a Uint8Array
ModeByte_Swapped(sequence, modeA, modeB) ==
  ToUint8(BitOr8(BitOr8(ToUint8(sequence * 16), ToUint8(modeA * 4)),
                 ToUint8(modeB)))

ModeByte(sequence, modeA, modeB) ==
  ToUint8(BitOr8(BitOr8(ToUint8(sequence * 16), ToUint8(modeB * 4)),
                 ToUint8(modeA)))

\* buildB0Command({sequence, modeA, modeB, intensityA, intensityB, wave...})
BuildB0Command(sequence, modeA, modeB, intensityA, intensityB, waveA, waveB) ==
  <<176,
    ModeByte(sequence, modeA, modeB),
    ToUint8(Clamp(intensityA, 0, 200)),
    ToUint8(Clamp(intensityB, 0, 200))>>
  \o [k \in 1..4 |-> ToUint8(EncodeFrequency(waveA.freq[k]))]
  \o [k \in 1..4 |-> ToUint8(Clamp(waveA.intensity[k], 0, 100))]
  \o [k \in 1..4 |-> ToUint8(EncodeFrequency(waveB.freq[k]))]
  \o [k \in 1..4 |-> ToUint8(Clamp(waveB.intensity[k], 0, 100))]

\* encodeV2Power(a, b)
EncodeV2Power_LowBitsOnly(a, b) ==
  LET ca == Clamp(a, 0, 2047)
      cb == Clamp(b, 0, 2047)
  IN <<cb % 256,
       BitOr8((cb \div 256) % 8, (ca % 32) * 8),
       (ca \div 32) % 32>>

EncodeV2Power(a, b) ==
  LET ca == Clamp(a, 0, 2047)
      cb == Clamp(b, 0, 2047)
  IN <<cb % 256,
       BitOr8((cb \div 256) % 8, (ca % 32) * 8),
       (ca \div 32) % 64>>

\* encodeV2Wave(x, y, z)
EncodeV2Wave(x, y, z) ==
  LET cx == Clamp(x, 0, 31)
      cy == Clamp(y, 0, 1023)
      cz == Clamp(z, 0, 31)
  IN <<ToUint8(BitOr8(cx % 32, (cy % 8) * 32)),
       (cy \div 8) % 128,
       cz % 32>>

\* the protocols whose buildCommand keeps no state
StatelessProtocols == ProtocolIds \ {"coyote", "coyote-v2"}

\* the default of buildCommand's / buildStopCommand's second parameter
\* (motorCount or motorIndex), 0 where there is none
DefaultArg(p) ==
  CASE p = "kiiroo" -> 1
    [] p = "satisfyer" -> 1
    [] p = "mysteryvibe" -> 6
    [] OTHER -> 0

\* the second arguments a caller can pass: a motor count, a motor index
MotorArgs(p) ==
  CASE p \in {"kiiroo", "satisfyer", "mysteryvibe"} ->
         (1..MaxMotors) \cup {DefaultArg(p)}
    [] p = "aneros" -> {0, 1}
    [] OTHER -> {0}

\* new Array(n).fill(b)
Fill(n, b) == [k \in 1..n |-> b]

\* svakom: const multiplier = level === 0 ? 0x00 : 0x01
SvakomMultiplier_AlwaysOn(level) == 1

SvakomMultiplier(level) == IF level = 0 THEN 0 ELSE 1

\* the frame a stateless protocol's buildCommand(intensity, arg) returns
StatelessCommandWith(p, i, arg) ==
  LET level == RawLevel(p, i)
      b == ToUint8(level)
  IN CASE p = "lovense" -> LovenseText(level)
       [] p = "satisfyer" -> Fill(4 * arg, b)
       [] p = "wevibe" ->
            IF level = 0 THEN <<15, 0, 0, 0, 0, 0, 0, 0>>
            ELSE <<15, 3, 0, BitOr8(ToUint8(level), ToUint8(level * 16)),
                   0, 3, 0, 0>>
       [] p = "lelo" -> <<1, b, b>>
       [] p = "kiiroo" -> Fill(arg, b)
       [] p = "svakom" -> <<85, 4, 3, 0, SvakomMultiplier(level), b>>
       [] p = "magicmotion" ->
            <<11, 255, 4, 10, 50, 50, 0, 4, 8, b, 100, 0, 4, 8, b>>
       [] p = "mysteryvibe" -> Fill(arg, b)
       [] p = "aneros" -> <<ToUint8(241 + arg), b>>

\* the frame a stateless protocol's buildStopCommand(arg) returns
StatelessStopCommandWith(p, arg) ==
  CASE p = "lovense" -> LovenseText(0)
    [] p = "satisfyer" -> StatelessCommandWith(p, 0, arg)
    [] p = "wevibe" -> <<15, 0, 0, 0, 0, 0, 0, 0>>
    [] p = "lelo" -> <<1, 0, 0>>
    [] p = "kiiroo" -> Fill(arg, 0)
    [] p = "svakom" -> <<85, 4, 3, 0, 0, 0>>
    [] p = "magicmotion" -> StatelessCommandWith(p, 0, arg)
    [] p = "mysteryvibe" -> Fill(arg, 0)
    [] p = "aneros" -> <<ToUint8(241 + arg), 0>>

\* the same two with the second parameter left to its default
StatelessCommand(p, i) == StatelessCommandWith(p, i, DefaultArg(p))
StatelessStopCommand(p) == StatelessStopCommandWith(p, DefaultArg(p))

VARIABLES
  \* --- legacy Coyote V2 connection (closure state of connectV2) ---
  v2Connected,    \* v2State.connected
  v2IntensityA,   \* v2State.intensityA
  v2IntensityB,   \* v2State.intensityB
  v2Sending,      \* the lock flag
  v2Pending,      \* the single pending slot
  hasWaveA,       \* waveAChar was found
  hasWaveB,       \* waveBChar was found
  v2Calls,        \* sendCommand / stopCommand invocations suspended at an await
  \* --- observation of the V2 connection (history, not program state) ---
  nReq,           \* requests issued so far; a request's id is its rank
  lastReqLevel,   \* power level asked for by the most recent request
  devicePower,    \* power level of the last power write the device accepted
  faults,         \* some write failed or the link dropped
  arrivals,       \* sends that arrived during the send sequence in flight
  startedIds,     \* requests for which a write sequence was started
  droppedIds,     \* requests overwritten in the pending slot
  lastDone,       \* what the last completed send sequence left behind
  \* --- device handle (closure state of connect, haptic/vibrator.js) ---
  protocol,       \* protocol.id of the protocol picked at connect
  active,         \* _active
  keepaliveTimer, \* _keepaliveTimer (NoTimer: null)
  lastCommand,    \* _lastCommand (NoCommand: null)
  lastIntensity,  \* _lastIntensity
  timers,         \* interval timers registered with setInterval, not cleared
  charWrites,     \* writeToChar calls awaiting their write
  serverConnected,\* server.connected
  \* --- Coyote V3 channel state (coyote._state) ---
  cyIntensityA,
  cyIntensityB,
  cyWaveformA,
  cyWaveformB,
  \* --- observation of the handle (history, not program state) ---
  hEvent,         \* what the last step of the handle was
  tickIssued,     \* what the last keepalive tick issued
  doneInfo,       \* how the last awaited handle call ended
  lastCall,       \* the latest call of send / activate / stop / disconnect
  prevCall,       \* the call before it
  lastSnap,       \* handle state right after the latest call
  prevSnap,       \* handle state right after the call before it
  sinceStop,      \* stop() was called and activate() was not called since
  callCtx,        \* who made the latest call, and isRunning right after it
  recentSend,     \* intensity and command of the most recent send()
  \* --- session controller (main.js) ---
  isRunning,      \* isRunning
  session,        \* session (NoSession: null), else the rank of the session
  sessionElapsed, \* Date.now() - session.startTime >= session.duration
  clickerEnabled, \* settings.clickerEnabled
  micConnected,   \* micConnected, which runSequence copies into promptMode
  listening,      \* the loop whose listen() promise the listener holds
  currentPromptIndex, \* currentPromptIndex
  genParity,      \* (history) parity of the number of getNextValues calls
  stoppedLoops,   \* (history) loops that were suspended when stopSequence ran
  resumedLoops,   \* (history) those of them that began another iteration
  loops,          \* the runSequence invocations and where each is suspended
  nSessions,      \* sessions created so far
  completedSessions, \* (history) sessions reported as complete
  \* --- a connect() invocation (haptic/vibrator.js) ---
  connPc,         \* where connect() is suspended, or how it ended
  connDevice,     \* kind of the device the chooser returned
  connAttempt,    \* the loop variable attempt
  connLog,        \* outcome of each finished pass of the retry loop
  connRaisedBy,   \* the step whose error connect() raised
  gattCalls,      \* device.gatt.connect() calls made so far
  connProtocol,   \* protocol.id of the protocol connect() settled on
  connVersion,    \* result.version of connectCoyote ("none": not settled)
  connConsulted,  \* connect() has called detectProtocol
  \* --- a device, and a detectProtocol call on it ---
  devName,        \* device.name
  devServices,    \* uuids of the services passed along
  detPc,          \* "input" before the detectProtocol call, "done" after
  detResult,      \* id of the definition returned (NoProtocol: null)
  \* --- discovery and init of a connect() invocation ---
  suDevice,       \* "coyote" when isCoyote(device.name), else "vibrator"
  suServices,     \* services, the list getPrimaryServices() resolved with
  suProtocol,     \* protocol.id
  suVersion,      \* result.version of connectCoyote ("none": not set)
  suPc,           \* where connect() is suspended, or how it ended
  targetService,  \* index of targetService / v3Service in services
  suIndex,        \* position of the connectV2 loop in v2Services
  scanned,        \* (history) positions whose getCharacteristics() resolved
  powerChar,      \* powerChar (NoChar: null)
  waveAChar,      \* waveAChar
  waveBChar,      \* waveBChar
  writeChar,      \* writeChar
  useWriteWithoutResponse, \* useWriteWithoutResponse
  initStep,       \* writes of protocol.init that have completed
  initResult,     \* what protocol.init returned ("none": not returned)
  suWrites,       \* (history) the writes issued, with their method
  suError,        \* message of the error connect() raised
  \* --- a call of a session arc function (config.js) ---
  arcName,        \* key of the function in SESSION_ARCS
  arcT,           \* the progress argument is arcT / ArcSteps
  arcPc,          \* "input" before the call, "done" after it
  arcRange,       \* the {min, max} returned, numerators over ArcOne
  \* --- a session object (config.js) ---
  catState,       \* session.intensity, session.delay, session.reward
  sessStep,       \* session.step
  sessStart,      \* session.startTime
  sessDuration,   \* session.duration
  clock,          \* Date.now()
  \* --- observation of the session object (history, not program state) ---
  catObs,         \* per category: advances since the count was last set
  completeAt,     \* clock reading of the latest isSessionComplete call
  completeResult, \* what that call returned
  completeBefore, \* an earlier isSessionComplete call returned true
  \* --- one call of a function that keeps no state ---
  callFn,         \* name of the function ("none": no call followed)
  callArgs,       \* its arguments, a record
  callOut,        \* what it returned
  callPc,         \* "input" before the call, "done" after it
  \* --- a buildCommand call on a protocol object ---
  bPc,            \* "input" before the call, "built" after it
  bIntensity,     \* numerator of the intensity argument
  bCommand,       \* the frame returned
  bArg,           \* the second argument (motor count or motor index)
  bStopPc,        \* "input" before the buildStopCommand call, "built" after
  bStopCommand,   \* the frame buildStopCommand returned
  \* --- observation of a sequence of calls on a Coyote protocol object ---
  cyOp,           \* the latest call: "build", "full", "stop" ("none" before)
  cyPrevOp,       \* the call before it
  cyArgs,         \* channel and level of the latest buildCommand call
  cyFrame,        \* the frame the latest call returned
  cyCalls,        \* calls made so far
  cyStopped,      \* buildStopCommand has been called
  setIntA,        \* the intensity most recently set for channel A
  setIntB,        \* the intensity most recently set for channel B
  setWaveA,       \* the waveform most recently set for channel A
  setWaveB        \* the waveform most recently set for channel B

gateVars == <<v2Connected, v2IntensityA, v2IntensityB, v2Sending, v2Pending,
              hasWaveA, hasWaveB, v2Calls>>
gateObs == <<nReq, lastReqLevel, devicePower, faults, arrivals, startedIds,
             droppedIds, lastDone>>

handleVars == <<protocol, active, keepaliveTimer, lastCommand, lastIntensity,
                timers, charWrites, serverConnected>>
cyVars == <<cyIntensityA, cyIntensityB, cyWaveformA, cyWaveformB>>
handleObs == <<hEvent, tickIssued, doneInfo, lastCall, prevCall, lastSnap,
               prevSnap, sinceStop, callCtx, recentSend>>

promptVars == <<micConnected, listening, currentPromptIndex, genParity,
                stoppedLoops, resumedLoops>>
sessionVars == <<isRunning, session, sessionElapsed, clickerEnabled, loops,
                 nSessions, completedSessions, promptVars>>

connectVars == <<connPc, connDevice, connAttempt, connLog, connRaisedBy,
                 gattCalls, connProtocol, connVersion, connConsulted>>
detectVars == <<devName, devServices, detPc, detResult>>
arcVars == <<arcName, arcT, arcPc, arcRange>>
valueVars == <<catState, sessStep, sessStart, sessDuration, clock, catObs,
               completeAt, completeResult, completeBefore>>
callVars == <<callFn, callArgs, callOut, callPc>>
discoverVars == <<suDevice, suServices, suProtocol, suVersion, suPc,
                  targetService, suIndex, scanned, powerChar, waveAChar, waveBChar,
                  writeChar, useWriteWithoutResponse, initStep, initResult,
                  suWrites, suError>>
configVars == <<arcVars, valueVars, callVars, discoverVars>>
buildVars == <<bPc, bIntensity, bCommand, bArg, bStopPc, bStopCommand>>
coyoteObs == <<cyOp, cyPrevOp, cyArgs, cyFrame, cyCalls, cyStopped, setIntA,
               setIntB, setWaveA, setWaveB>>
setupVars == <<connectVars, buildVars, coyoteObs, detectVars, configVars>>

vars == <<gateVars, gateObs, handleVars, cyVars, handleObs, sessionVars,
          setupVars>>

\* ========================================================================
\* Protocol registry and detectProtocol (haptic/protocols/index.js), isCoyote
\* (haptic/protocols/coyote.js)
\* ========================================================================
UpperChars == "ABCDEFGHIJKLMNOPQRSTUVWXYZ"
LowerChars == "abcdefghijklmnopqrstuvwxyz"

\* one character of String.prototype.toLowerCase
LowerChar(c) ==
  IF \E k \in 1..Len(UpperChars) : SubSeq(UpperChars, k, k) = c
  THEN LET k == CHOOSE k \in 1..Len(UpperChars) : SubSeq(UpperChars, k, k) = c
       IN SubSeq(LowerChars, k, k)
  ELSE c

\* String.prototype.toLowerCase
RECURSIVE ToLowerCase(_)
ToLowerCase(s) ==
  IF Len(s) = 0 THEN s
  ELSE LowerChar(SubSeq(s, 1, 1)) \o ToLowerCase(SubSeq(s, 2, Len(s)))

\* String.prototype.startsWith
StartsWith(s, prefix) ==
  /\ Len(s) >= Len(prefix)
  /\ SubSeq(s, 1, Len(prefix)) = prefix

\* String.prototype.includes
Includes(s, part) ==
  \E k \in 1..(Len(s) - Len(part) + 1) : SubSeq(s, k, k + Len(part) - 1) = part

\* the regular expressions of the registry are all /^literal/ or /^literal/i
Re(prefix) == [prefix |-> prefix, ignoreCase |-> FALSE]
ReI(prefix) == [prefix |-> prefix, ignoreCase |-> TRUE]

\* pattern.test(deviceName)
PatternTest(pattern, deviceName) ==
  IF pattern.ignoreCase
  THEN StartsWith(ToLowerCase(deviceName), ToLowerCase(pattern.prefix))
  ELSE StartsWith(deviceName, pattern.prefix)

\* the registry, in its order
PROTOCOLS ==
  <<
   [id |-> "satisfyer",
     namePatterns |->
         <<Re("SF"), ReI("Satisfyer"), ReI("SAT")>>,
     serviceUUIDs |->
         <<"0000fff0-0000-1000-8000-00805f9b34fb">>],
   [id |-> "lovense",
     namePatterns |->
         <<Re("LVS-"), Re("Lush"), Re("Hush"), Re("Edge"), Re("Osci"),
           Re("Domi"), Re("Nora"), Re("Max"), Re("Ambi"), Re("Ferri"),
           Re("Diamo"), Re("Dolce"), Re("Exomoon"), Re("Tenera"),
           Re("Flexer"), Re("Gravity"), Re("Gemini"), Re("Lapis"),
           ReI("Solace")>>,
     serviceUUIDs |->
         <<"50300001-0024-4bd4-bbd5-a6920e4c5653",
           "53300001-0023-4bd4-bbd5-a6920e4c5653",
           "57300001-0023-4bd4-bbd5-a6920e4c5653",
           "5a300001-0023-4bd4-bbd5-a6920e4c5653",
           "5a300001-0024-4bd4-bbd5-a6920e4c5653",
           "6e400001-b5a3-f393-e0a9-e50e24dcca9e">>],
   [id |-> "wevibe",
     namePatterns |->
         <<Re("Cougar"), Re("Ditto"), Re("Gala"), Re("Jive"),
           Re("Match"), Re("Melt"), Re("Moxie"), Re("Nova"),
           Re("Pivot"), Re("Rave"), Re("Sync"), Re("Vector"),
           Re("Verge"), Re("Wish"), ReI("We-Vibe")>>,
     serviceUUIDs |->
         <<"f000bb03-0451-4000-b000-000000000000">>],
   [id |-> "lelo",
     namePatterns |->
         <<Re("F1s"), ReI("LELO"), Re("Sona"), Re("Tiani"),
           Re("Hugo"), Re("Ida"), Re("Ina"), Re("Lily"), Re("Mona"),
           Re("Ora"), Re("Sila"), ReI("Soraya")>>,
     serviceUUIDs |->
         <<>>],
   [id |-> "kiiroo",
     namePatterns |->
         <<Re("Onyx"), Re("Pearl"), Re("Fuse"), Re("Titan"),
           Re("Cliona"), ReI("OhMiBod"), ReI("Kiiroo")>>,
     serviceUUIDs |->
         <<>>],
   [id |-> "svakom",
     namePatterns |->
         <<ReI("Svakom"), Re("Emma"), Re("Ella"), Re("Vicky"),
           Re("Alex"), Re("Sam"), Re("Iker"), Re("Tarax"),
           ReI("Pulse")>>,
     serviceUUIDs |->
         <<>>],
   [id |-> "magicmotion",
     namePatterns |->
         <<ReI("Magic Motion"), Re("Kegel"), Re("Flamingo"),
           Re("Candy"), Re("Bunny"), ReI("Eidolon")>>,
     serviceUUIDs |->
         <<>>],
   [id |-> "mysteryvibe",
     namePatterns |->
         <<Re("Crescendo"), Re("Tenuto"), Re("Poco"),
           ReI("MysteryVibe")>>,
     serviceUUIDs |->
         <<>>],
   [id |-> "aneros",
     namePatterns |->
         <<ReI("Vivi")>>,
     serviceUUIDs |->
         <<>>],
   [id |-> "coyote",
     namePatterns |->
         <<ReI("D-LAB ESTIM"), Re("47L")>>,
     serviceUUIDs |->
         <<"0000180c-0000-1000-8000-00805f9b34fb">>]
  >>

\* detectProtocol returns null for a device nothing matches
NoProtocol == "null"

\* s.uuid.toLowerCase() / uuid.toLowerCase()
NormalizeUuid_AsIs(uuid) == uuid

NormalizeUuid(uuid) == ToLowerCase(uuid)

\* def.namePatterns.some(pattern => pattern.test(deviceName))
NameMatches(def, deviceName) ==
  \E k \in 1..Len(def.namePatterns) :
    PatternTest(def.namePatterns[k], deviceName)

\* def.serviceUUIDs.length > 0 &&
\*   def.serviceUUIDs.some(uuid => serviceUUIDs.includes(uuid.toLowerCase()))
ServiceMatches(def, serviceUUIDs) ==
  /\ Len(def.serviceUUIDs) > 0
  /\ \E k \in 1..Len(def.serviceUUIDs) :
       NormalizeUuid(def.serviceUUIDs[k]) \in serviceUUIDs

\* the statements after the loop: console.warn(...); return null
UnknownDevice_Lovense(deviceName) == "lovense"

UnknownDevice(deviceName) == NoProtocol

\* the loop over PROTOCOLS from its k-th definition on
RECURSIVE DetectFrom(_, _, _)
DetectFrom(k, deviceName, serviceUUIDs) ==
  IF k > Len(PROTOCOLS)
  THEN UnknownDevice(deviceName)
  ELSE LET def == PROTOCOLS[k]
       IN IF NameMatches(def, deviceName) THEN def.id
          ELSE IF ServiceMatches(def, serviceUUIDs) THEN def.id
          ELSE DetectFrom(k + 1, deviceName, serviceUUIDs)

\* detectProtocol(deviceName, services); services is the set of the uuids
\* of the service objects
DetectProtocol(deviceName, services) ==
  DetectFrom(1, deviceName, {NormalizeUuid(u) : u \in services})

\* isCoyote(deviceName)
IsCoyote(deviceName) ==
  /\ deviceName # ""
  /\ LET name == ToLowerCase(deviceName)
     IN \/ StartsWith(name, "d-lab")
        \/ StartsWith(name, "dg-lab")
        \/ StartsWith(name, "47l")
        \/ StartsWith(name, "coyote")
        \/ Includes(name, "estim")

\* COYOTE_V3.CONTROL_SERVICE, COYOTE_V2.SERVICE_A, COYOTE_V2.SERVICE_B
V3ControlService == "0000180c-0000-1000-8000-00805f9b34fb"
V2ServiceA == "955a180a-0fe2-f5aa-a094-84b8d4f3e8ad"
V2ServiceB == "955a180b-0fe2-f5aa-a094-84b8d4f3e8ad"

\* device names the chooser can hand over
DeviceNames ==
  {"LVS-Z001", "lvs-z001", "satisfyer 2", "Sync", "VIVI", "D-LAB ESTIM001",
   "47L121000", "Unknown"}

\* service uuids a caller of detectProtocol can pass, one of them in upper
\* case
ServiceUuids ==
  {"0000fff0-0000-1000-8000-00805f9b34fb",
   "6E400001-B5A3-F393-E0A9-E50E24DCCA9E",
   "0000180a-0000-1000-8000-00805f9b34fb",
   V3ControlService, V2ServiceA, V2ServiceB}

\* BluetoothRemoteGATTService.uuid is in canonical lower case
GattServiceUuids == {ToLowerCase(u) : u \in ServiceUuids}

\* detectProtocol(deviceName, services) is called
DetectProtocolCall ==
  /\ detPc = "input"
  /\ detPc' = "done"
  /\ detResult' = DetectProtocol(devName, devServices)
  /\ UNCHANGED <<devName, devServices>>
  /\ UNCHANGED <<gateVars, gateObs, handleVars, cyVars, handleObs,
                 sessionVars, connectVars, buildVars, coyoteObs, configVars>>

InitDetect ==
  /\ devName = ""
  /\ devServices = {}
  /\ detPc = "idle"
  /\ detResult = NoProtocol

\* ========================================================================
\* connect() (haptic/vibrator.js): device chooser, GATT retry loop, protocol
\* set-up
\* ========================================================================
\* for (let attempt = 1; attempt <= 3; attempt++)
MaxAttempts == 3

\* what the chooser can end with: the user cancels, or a device is returned
ChooserOutcomes == {"cancelled"} \cup DeviceNames
\* how one pass of the retry loop can end
PassOutcomes == {"ok", "connectFailed", "servicesFailed"}
\* how connectCoyote / characteristic discovery can end
SetupOutcomes == {"ok", "noWritable", "error"}
\* getPrimaryServices() resolves with at least one service
ServiceLists == (SUBSET GattServiceUuids) \ {{}}

\* if (attempt === 3) throw e
IsLastAttempt_Second(attempt) == attempt >= MaxAttempts - 1

IsLastAttempt(attempt) == attempt = MaxAttempts

\* if (v3Service) return connectV3(...), tested before the V2 services
PrefersV3_LegacyFirst(hasV3, hasV2) == hasV3 /\ ~hasV2

PrefersV3(hasV3, hasV2) == hasV3

\* the generation connectCoyote settles on ("none": it throws after the
\* service dump)
CoyoteVersion(services) ==
  LET hasV3 == \E u \in services : u = V3ControlService
      hasV2 == \/ \E u \in services : u = V2ServiceB
               \/ \E u \in services : u = V2ServiceA
  IN IF PrefersV3(hasV3, hasV2) THEN "v3"
     ELSE IF hasV2 THEN "v2"
     ELSE "none"

\* protocol = detectProtocol(device.name, services) || lovense
DetectOrDefault(deviceName, services) ==
  LET detected == DetectProtocol(deviceName, services)
  IN IF detected = NoProtocol THEN "lovense" ELSE detected

\* server = await device.gatt.connect(), first statement of a pass
CallGattConnect(attempt) ==
  /\ connAttempt' = attempt
  /\ gattCalls' = gattCalls + 1
  /\ connPc' = "gatt"

\* connect() is called: navigator.bluetooth.requestDevice is awaited
ConnectCall ==
  /\ UNCHANGED <<gateVars, gateObs, handleVars, cyVars, handleObs,
                 sessionVars, buildVars, coyoteObs, detectVars, configVars>>
  /\ connPc = "idle"
  /\ connPc' = "chooser"
  /\ UNCHANGED <<connDevice, connAttempt, connLog, connRaisedBy, gattCalls,
                 connProtocol, connVersion, connConsulted>>

\* the chooser promise settles; with a device the retry loop is entered
ChooserDone(d) ==
  /\ UNCHANGED <<gateVars, gateObs, handleVars, cyVars, handleObs,
                 sessionVars, buildVars, coyoteObs, devServices, detPc,
                 detResult, configVars>>
  /\ UNCHANGED <<connProtocol, connVersion, connConsulted>>
  /\ connPc = "chooser"
  /\ IF d = "cancelled"
     THEN /\ connPc' = "raised"
          /\ connRaisedBy' = "chooser"
          /\ UNCHANGED <<connDevice, connAttempt, connLog, gattCalls,
                         devName>>
     ELSE /\ devName' = d
          /\ connDevice' = IF IsCoyote(d) THEN "coyote" ELSE "vibrator"
          /\ CallGattConnect(1)
          /\ UNCHANGED <<connLog, connRaisedBy>>

\* the catch block of the retry loop
PassFailed(kind) ==
  /\ connLog' = Append(connLog, kind)
  /\ IF IsLastAttempt(connAttempt)
     THEN /\ connPc' = "raised"
          /\ connRaisedBy' = "retry"
     ELSE /\ connPc' = "backoff"
          /\ UNCHANGED connRaisedBy
  /\ UNCHANGED <<connDevice, connAttempt, gattCalls, connProtocol,
                 connVersion, connConsulted>>

\* device.gatt.connect() settles
GattConnectDone(ok) ==
  /\ UNCHANGED <<gateVars, gateObs, handleVars, cyVars, handleObs,
                 sessionVars, buildVars, coyoteObs, detectVars, configVars>>
  /\ connPc = "gatt"
  /\ IF ok
     THEN /\ connPc' = "settle"
          /\ UNCHANGED <<connDevice, connAttempt, connLog, connRaisedBy,
                         gattCalls, connProtocol, connVersion,
                         connConsulted>>
     ELSE PassFailed("connectFailed")

\* the 300 ms wait ends: services = await server.getPrimaryServices()
StabilizeTimer ==
  /\ UNCHANGED <<gateVars, gateObs, handleVars, cyVars, handleObs,
                 sessionVars, buildVars, coyoteObs, detectVars, configVars>>
  /\ connPc = "settle"
  /\ connPc' = "services"
  /\ UNCHANGED <<connDevice, connAttempt, connLog, connRaisedBy, gattCalls,
                 connProtocol, connVersion, connConsulted>>

\* the statements between the retry loop and the next await: for a Coyote
\* name connectCoyote picks the generation, for any other name the registry
\* is asked
PickProtocol(services) ==
  IF connDevice = "coyote"
  THEN /\ connVersion' = CoyoteVersion(services)
       /\ connProtocol' = IF CoyoteVersion(services) = "none"
                          THEN NoProtocol ELSE "coyote"
       /\ UNCHANGED connConsulted
  ELSE /\ connProtocol' = DetectOrDefault(devName, services)
       /\ connConsulted' = TRUE
       /\ UNCHANGED connVersion

\* getPrimaryServices() settles; on success break, and the protocol set-up
\* (connectCoyote, or getCharacteristics of the target service) is awaited
ServicesDone(ok, services) ==
  /\ UNCHANGED <<gateVars, gateObs, handleVars, cyVars, handleObs,
                 sessionVars, buildVars, coyoteObs, devName, detPc,
                 detResult, configVars>>
  /\ connPc = "services"
  /\ IF ok
     THEN /\ devServices' = services
          /\ connLog' = Append(connLog, "ok")
          /\ connPc' = "setup"
          /\ PickProtocol(services)
          /\ UNCHANGED <<connDevice, connAttempt, connRaisedBy, gattCalls>>
     ELSE /\ PassFailed("servicesFailed")
          /\ UNCHANGED devServices

\* the 500 ms wait ends and the loop goes round
BackoffTimer ==
  /\ UNCHANGED <<gateVars, gateObs, handleVars, cyVars, handleObs,
                 sessionVars, buildVars, coyoteObs, detectVars, configVars>>
  /\ connPc = "backoff"
  /\ CallGattConnect(connAttempt + 1)
  /\ UNCHANGED <<connDevice, connLog, connRaisedBy, connProtocol,
                 connVersion, connConsulted>>

\* connectCoyote / getCharacteristics settles; without a writable
\* characteristic, or without a known Coyote service, connect() throws,
\* otherwise protocol.init is awaited
SetupDone(o) ==
  /\ UNCHANGED <<gateVars, gateObs, handleVars, cyVars, handleObs,
                 sessionVars, buildVars, coyoteObs, detectVars, configVars>>
  /\ connPc = "setup"
  /\ (o = "noWritable") => (connDevice = "vibrator")
  /\ (connDevice = "coyote" /\ connVersion = "none") => (o = "error")
  /\ IF o = "ok"
     THEN /\ connPc' = "init"
          /\ UNCHANGED connRaisedBy
     ELSE /\ connPc' = "raised"
          /\ connRaisedBy' = "setup"
  /\ UNCHANGED <<connDevice, connAttempt, connLog, gattCalls, connProtocol,
                 connVersion, connConsulted>>

\* protocol.init settles (it catches its own write errors) and connect()
\* returns the handle
InitDone ==
  /\ UNCHANGED <<gateVars, gateObs, handleVars, cyVars, handleObs,
                 sessionVars, buildVars, coyoteObs, detectVars, configVars>>
  /\ connPc = "init"
  /\ connPc' = "ready"
  /\ UNCHANGED <<connDevice, connAttempt, connLog, connRaisedBy, gattCalls,
                 connProtocol, connVersion, connConsulted>>

InitConnect ==
  /\ connPc = "idle"
  /\ connDevice = "none"
  /\ connAttempt = 0
  /\ connLog = <<>>
  /\ connRaisedBy = "none"
  /\ gattCalls = 0
  /\ connProtocol = NoProtocol
  /\ connVersion = "none"
  /\ connConsulted = FALSE

\* ========================================================================
\* Characteristic discovery and protocol init of connect() (haptic/
\* vibrator.js; connectCoyote, connectV3 and connectV2 in coyote.js), from
\* the service list getPrimaryServices() resolved with, and the write method
\* of the writes the returned handle issues
\* ========================================================================
GenericAccess == "00001800-0000-1000-8000-00805f9b34fb"
GenericAttribute == "00001801-0000-1000-8000-00805f9b34fb"
VendorService == "0000fff0-0000-1000-8000-00805f9b34fb"
BatteryService == "0000180a-0000-1000-8000-00805f9b34fb"

\* COYOTE_V3.WRITE_CHAR, COYOTE_V2.POWER, COYOTE_V2.WAVE_A, COYOTE_V2.WAVE_B
V3WriteChar == "0000150a-0000-1000-8000-00805f9b34fb"
V2Power == "955a1504-0fe2-f5aa-a094-84b8d4f3e8ad"
V2WaveA == "955a1506-0fe2-f5aa-a094-84b8d4f3e8ad"
V2WaveB == "955a1505-0fe2-f5aa-a094-84b8d4f3e8ad"

\* a characteristic with its uuid and the two properties connect() reads
Char(uuid, write, writeWithoutResponse) ==
  [uuid |-> uuid, write |-> write,
   writeWithoutResponse |-> writeWithoutResponse]

\* null / undefined where a characteristic is expected
NoChar == Char("", FALSE, FALSE)
\* no service picked
NoService == 0

\* a service with its uuid and what getCharacteristics() resolves with
Service(uuid, chars) == [uuid |-> uuid, chars |-> chars]

\* longest service list followed
MaxServices == 2

\* characteristic lists of a vibrator service: none, a read-only one, a
\* read-only one before a writable one, and two writable ones
VibratorCharLists ==
  {<<>>,
   <<Char("0000fff1", FALSE, FALSE)>>,
   <<Char("0000fff1", FALSE, FALSE), Char("0000fff2", TRUE, FALSE)>>,
   <<Char("0000fff3", FALSE, TRUE), Char("0000fff2", TRUE, FALSE)>>}

VibratorServices ==
  {Service(u, cs) : u \in {GenericAccess, GenericAttribute, VendorService},
                    cs \in VibratorCharLists}

\* the services of a Coyote: the V3 control service with its command
\* characteristic (advertising write, or write-without-response only) or
\* without it, each legacy service with some of the three legacy
\* characteristics, and the battery service
CoyoteCharLists ==
  {<<>>,
   <<Char(V2Power, FALSE, FALSE)>>,
   <<Char(V2Power, FALSE, TRUE)>>,
   <<Char(V2WaveA, FALSE, TRUE), Char(V2WaveB, FALSE, TRUE)>>,
   <<Char(V2Power, FALSE, TRUE), Char(V2WaveA, FALSE, TRUE),
     Char(V2WaveB, FALSE, TRUE)>>}

CoyoteServices ==
  {Service(V3ControlService, cs) :
     cs \in {<<>>, <<Char(V3WriteChar, TRUE, TRUE)>>,
             <<Char(V3WriteChar, FALSE, TRUE)>>}}
  \cup {Service(u, cs) : u \in {V2ServiceA, V2ServiceB},
                         cs \in CoyoteCharLists}
  \cup {Service(BatteryService, <<>>)}

ServiceListsOf(S) ==
  UNION {[1..n -> S] : n \in 1..MaxServices}

\* the protocols detectProtocol(...) || lovense hands to the vibrator branch
\* that are followed: no init write, one init write, two init writes
VibratorProtocols == {"lovense", "satisfyer", "wevibe"}

\* Array.prototype.find as an index, 0 when nothing passes the test
FindIndex(list, Test(_)) ==
  IF \E k \in 1..Len(list) : Test(list[k])
  THEN CHOOSE k \in 1..Len(list) :
         Test(list[k]) /\ \A j \in 1..(k - 1) : ~Test(list[j])
  ELSE 0

\* s.uuid.startsWith('00001800') || s.uuid.startsWith('00001801')
IsGeneric(s) ==
  StartsWith(s.uuid, "00001800") \/ StartsWith(s.uuid, "00001801")

NonGeneric(s) == ~IsGeneric(s)

\* services.find(s => !generic(s)) || services[0], as an index
TargetService(services) ==
  LET found == FindIndex(services, NonGeneric)
  IN IF found # 0 THEN found ELSE 1

\* c.properties.write || c.properties.writeWithoutResponse
IsWritable(c) == c.write \/ c.writeWithoutResponse

\* chars.find(c => c.properties.write || c.properties.writeWithoutResponse)
FindWritable(chars) ==
  LET found == FindIndex(chars, IsWritable)
  IN IF found # 0 THEN chars[found] ELSE NoChar

\* allServices.filter(s => s.uuid === SERVICE_A || s.uuid === SERVICE_B)
IsV2Service(s) == s.uuid = V2ServiceA \/ s.uuid = V2ServiceB
V2Services(services) == SelectSeq(services, IsV2Service)

\* the loop `for (const c of chars) if (c.uuid === uuid) held = c`
RECURSIVE Collect(_, _, _)
Collect(chars, uuid, held) ==
  IF chars = <<>> THEN held
  ELSE Collect(Tail(chars), uuid,
               IF Head(chars).uuid = uuid THEN Head(chars) ELSE held)

\* useWriteWithoutResponse = result.version === 'v2'
UseWriteWithoutResponse_Modern(version) == version = "v3"

UseWriteWithoutResponse(version) == version = "v2"

\* writeToChar(char, data): the method it calls
WriteToChar(use, char) ==
  IF use \/ ~char.write THEN "writeValueWithoutResponse" ELSE "writeValue"

\* a write as the device sees it
Written(phase, char, method) ==
  [phase |-> phase, char |-> char.uuid, method |-> method]

\* a write can complete only with a method the characteristic supports
CanComplete(char, method) ==
  IF method = "writeValue" THEN char.write ELSE char.writeWithoutResponse

\* the writes protocol.init(writeChar) awaits in turn, all of them inside
\* its try block
InitWrites(p) ==
  CASE p = "satisfyer" -> <<[char |-> writeChar, method |-> "writeValue"]>>
    [] p = "wevibe" -> <<[char |-> writeChar, method |-> "writeValue"],
                         [char |-> writeChar, method |-> "writeValue"]>>
    [] p = "coyote" -> <<[char |-> writeChar, method |-> "writeValue"]>>
    [] p = "coyote-v2" ->
         (IF waveAChar # NoChar
          THEN <<[char |-> waveAChar, method |-> "writeValueWithoutResponse"]>>
          ELSE <<>>)
         \o (IF waveBChar # NoChar
             THEN <<[char |-> waveBChar,
                     method |-> "writeValueWithoutResponse"]>>
             ELSE <<>>)
    [] OTHER -> <<>>

\* what init returns from its catch block
InitCatchReturns_False(p) == FALSE

InitCatchReturns(p) == p = "coyote-v2"

\* connect() leaves the retry loop with the service list: connectCoyote for
\* a Coyote name, else the target service is picked and its
\* getCharacteristics() awaited
BeginSetup ==
  /\ suPc = "input"
  /\ IF suDevice = "coyote"
     THEN LET IsV3(s) == s.uuid = V3ControlService
              v3 == FindIndex(suServices, IsV3)
          IN IF v3 # 0
             THEN /\ targetService' = v3
                  /\ suPc' = "v3char"
                  /\ UNCHANGED <<suIndex, suError>>
             ELSE IF V2Services(suServices) # <<>>
             THEN /\ suPc' = "scan"
                  /\ suIndex' = 1
                  /\ UNCHANGED <<targetService, suError>>
             ELSE \* every service is logged, then the error is thrown
                  /\ suPc' = "raised"
                  /\ suError' = "No known Coyote service found"
                  /\ UNCHANGED <<targetService, suIndex>>
     ELSE /\ targetService' = TargetService(suServices)
          /\ suPc' = "chars"
          /\ UNCHANGED <<suIndex, suError>>
  /\ UNCHANGED <<scanned, suDevice, suServices, suProtocol, suVersion, powerChar,
                 waveAChar, waveBChar, writeChar, useWriteWithoutResponse,
                 initStep, initResult, suWrites>>
  /\ UNCHANGED <<gateVars, gateObs, handleVars, cyVars, handleObs,
                 sessionVars, connectVars, buildVars, coyoteObs, detectVars,
                 arcVars, valueVars, callVars>>

\* targetService.getCharacteristics() settles
CharacteristicsDone(ok) ==
  /\ suPc = "chars"
  /\ LET found == FindWritable(suServices[targetService].chars)
     IN IF ~ok
        THEN /\ suPc' = "raised"
             /\ suError' = "getCharacteristics failed"
             /\ UNCHANGED writeChar
        ELSE IF found = NoChar
        THEN /\ suPc' = "raised"
             /\ suError' = "No writable characteristic found"
             /\ writeChar' = found
        ELSE /\ suPc' = "init"
             /\ writeChar' = found
             /\ UNCHANGED suError
  /\ UNCHANGED <<scanned, suDevice, suServices, suProtocol, suVersion, targetService,
                 suIndex, powerChar, waveAChar, waveBChar,
                 useWriteWithoutResponse, initStep, initResult, suWrites>>
  /\ UNCHANGED <<gateVars, gateObs, handleVars, cyVars, handleObs,
                 sessionVars, connectVars, buildVars, coyoteObs, detectVars,
                 arcVars, valueVars, callVars>>

\* connectV3: service.getCharacteristic(WRITE_CHAR) settles; it can resolve
\* only when the service has the characteristic. The notification set-up
\* that follows is inside a try block and writes nothing
V3CharDone(ok) ==
  /\ suPc = "v3char"
  /\ LET IsCommand(c) == c.uuid = V3WriteChar
         at == FindIndex(suServices[targetService].chars, IsCommand)
         found == IF at # 0 THEN suServices[targetService].chars[at]
                  ELSE NoChar
     IN /\ ok => found # NoChar
        /\ IF ok
           THEN /\ writeChar' = found
                /\ suPc' = "v3config"
                /\ UNCHANGED suError
           ELSE /\ suPc' = "raised"
                /\ suError' = "getCharacteristic failed"
                /\ UNCHANGED writeChar
  /\ UNCHANGED <<scanned, suDevice, suServices, suProtocol, suVersion, targetService,
                 suIndex, powerChar, waveAChar, waveBChar,
                 useWriteWithoutResponse, initStep, initResult, suWrites>>
  /\ UNCHANGED <<gateVars, gateObs, handleVars, cyVars, handleObs,
                 sessionVars, connectVars, buildVars, coyoteObs, detectVars,
                 arcVars, valueVars, callVars>>

\* connectV3: writeChar.writeValue(config) settles, inside its try block;
\* connectCoyote returns version 'v3' with the coyote protocol
V3ConfigWriteDone(ok) ==
  /\ suPc = "v3config"
  /\ ok => CanComplete(writeChar, "writeValue")
  /\ suWrites' = suWrites \cup {Written("connect", writeChar, "writeValue")}
  /\ UNCHANGED scanned
  /\ suVersion' = "v3"
  /\ suProtocol' = "coyote"
  /\ useWriteWithoutResponse' = UseWriteWithoutResponse("v3")
  /\ suPc' = "init"
  /\ UNCHANGED <<suDevice, suServices, targetService, suIndex, powerChar,
                 waveAChar, waveBChar, writeChar, initStep, initResult,
                 suError>>
  /\ UNCHANGED <<gateVars, gateObs, handleVars, cyVars, handleObs,
                 sessionVars, connectVars, buildVars, coyoteObs, detectVars,
                 arcVars, valueVars, callVars>>

\* connectV2: svc.getCharacteristics() of the suIndex-th legacy service
\* settles; after the last one the power characteristic is required
ScanDone(ok) ==
  /\ suPc = "scan"
  /\ LET v2Services == V2Services(suServices)
         chars == IF ok THEN v2Services[suIndex].chars ELSE <<>>
         power == Collect(chars, V2Power, powerChar)
     IN /\ scanned' = IF ok THEN scanned \cup {suIndex} ELSE scanned
        /\ powerChar' = power
        /\ waveAChar' = Collect(chars, V2WaveA, waveAChar)
        /\ waveBChar' = Collect(chars, V2WaveB, waveBChar)
        /\ IF suIndex < Len(v2Services)
           THEN /\ suIndex' = suIndex + 1
                /\ UNCHANGED <<suPc, suError, suVersion, suProtocol,
                               writeChar, useWriteWithoutResponse>>
           ELSE IF power = NoChar
           THEN /\ suPc' = "raised"
                /\ suError' = "V2 power characteristic not found"
                /\ UNCHANGED <<suIndex, suVersion, suProtocol, writeChar,
                               useWriteWithoutResponse>>
           ELSE /\ suPc' = "init"
                /\ suVersion' = "v2"
                /\ suProtocol' = "coyote-v2"
                /\ writeChar' = power
                /\ useWriteWithoutResponse' = UseWriteWithoutResponse("v2")
                /\ UNCHANGED <<suIndex, suError>>
  /\ UNCHANGED <<suDevice, suServices, targetService, initStep, initResult,
                 suWrites>>
  /\ UNCHANGED <<gateVars, gateObs, handleVars, cyVars, handleObs,
                 sessionVars, connectVars, buildVars, coyoteObs, detectVars,
                 arcVars, valueVars, callVars>>

\* a write awaited by protocol.init(writeChar) settles; a failure is caught
\* by init, which returns from its catch block, and connect() goes on to
\* build the handle
InitWriteDone(ok) ==
  /\ suPc = "init"
  /\ initStep < Len(InitWrites(suProtocol))
  /\ LET w == InitWrites(suProtocol)[initStep + 1]
     IN /\ ok => CanComplete(w.char, w.method)
        /\ suWrites' = suWrites \cup {Written("init", w.char, w.method)}
        /\ IF ok
           THEN /\ initStep' = initStep + 1
                /\ UNCHANGED <<suPc, initResult>>
           ELSE /\ initResult' = IF InitCatchReturns(suProtocol)
                                 THEN "true" ELSE "false"
                /\ suPc' = "ready"
                /\ UNCHANGED initStep
  /\ UNCHANGED <<scanned, suDevice, suServices, suProtocol, suVersion, targetService,
                 suIndex, powerChar, waveAChar, waveBChar, writeChar,
                 useWriteWithoutResponse, suError>>
  /\ UNCHANGED <<gateVars, gateObs, handleVars, cyVars, handleObs,
                 sessionVars, connectVars, buildVars, coyoteObs, detectVars,
                 arcVars, valueVars, callVars>>

\* init has no write left to await: return true, and connect() returns the
\* handle
InitReturn ==
  /\ suPc = "init"
  /\ initStep = Len(InitWrites(suProtocol))
  /\ initResult' = "true"
  /\ suPc' = "ready"
  /\ UNCHANGED <<scanned, suDevice, suServices, suProtocol, suVersion, targetService,
                 suIndex, powerChar, waveAChar, waveBChar, writeChar,
                 useWriteWithoutResponse, initStep, suWrites, suError>>
  /\ UNCHANGED <<gateVars, gateObs, handleVars, cyVars, handleObs,
                 sessionVars, connectVars, buildVars, coyoteObs, detectVars,
                 arcVars, valueVars, callVars>>

\* the writes one call of the handle issues: sendCommand / stopCommand of
\* the V2 protocol, else writeToChar(writeChar, cmd); op is "send" (send and
\* activate), "keepalive" (a timer tick) or "stop"
CommandWrites(op) ==
  IF HasSendCommand(suProtocol)
  THEN LET wave(c) == IF c = NoChar THEN {}
                      ELSE {Written(op, c, "writeValueWithoutResponse")}
       IN (IF op = "stop" THEN {} ELSE wave(waveAChar) \cup wave(waveBChar))
          \cup {Written(op, powerChar, "writeValueWithoutResponse")}
  ELSE {Written(op, writeChar,
                WriteToChar(useWriteWithoutResponse, writeChar))}

\* send, activate, stop or a keepalive tick of the returned handle issues
\* its writes
CommandWrite(op) ==
  /\ suPc = "ready"
  /\ op = "keepalive" => KeepaliveInterval(suProtocol) # 0
  /\ suWrites' = suWrites \cup CommandWrites(op)
  /\ UNCHANGED <<scanned, suDevice, suServices, suProtocol, suVersion, targetService,
                 suIndex, powerChar, waveAChar, waveBChar, writeChar,
                 useWriteWithoutResponse, initStep, initResult, suPc,
                 suError>>
  /\ UNCHANGED <<gateVars, gateObs, handleVars, cyVars, handleObs,
                 sessionVars, connectVars, buildVars, coyoteObs, detectVars,
                 arcVars, valueVars, callVars>>

\* no connect() followed through its discovery
InitDiscover ==
  /\ suDevice = "none"
  /\ suServices = <<>>
  /\ suProtocol = NoProtocol
  /\ suVersion = "none"
  /\ suPc = "idle"
  /\ targetService = NoService
  /\ suIndex = 0
  /\ scanned = {}
  /\ powerChar = NoChar
  /\ waveAChar = NoChar
  /\ waveBChar = NoChar
  /\ writeChar = NoChar
  /\ useWriteWithoutResponse = FALSE
  /\ initStep = 0
  /\ initResult = "none"
  /\ suWrites = {}
  /\ suError = "none"

\* ========================================================================
\* Legacy Coyote V2 write gate
\* ========================================================================
V2Scale == 1024

\* level = Math.round(intensity * 1024)
V2Level(i) == RoundDiv(i * V2Scale, IntensityDen)

NoPending == [set |-> FALSE, id |-> 0, i |-> 0]
NoDone == [done |-> FALSE, arrivals |-> <<>>, started |-> {}, conn |-> TRUE,
           pendingAfter |-> NoPending]

\* who invoked a gate operation: the handle function it was called through
\* and the session loop (0: none) that awaits the result
DirectCall == [via |-> "direct", who |-> 0]
PendingDispatch == [via |-> "pending", who |-> 0]

\* send() continues with _lastCommand = protocol.buildCommand(intensity)
\* once the sendCommand it awaited returns
ResumesSend(owner) == owner.via \in {"send", "activate"}

WritePcs == {"waveA", "waveB", "power"}
WriteOutcomes == {"ok", "disconnected", "error"}

\* the first characteristic sendCommand writes to
FirstWritePc ==
  IF hasWaveA THEN "waveA" ELSE IF hasWaveB THEN "waveB" ELSE "power"

\* the characteristic written after the write at pc succeeded
NextWritePc(pc) ==
  IF pc = "waveA" /\ hasWaveB THEN "waveB" ELSE "power"

\* v2Pending = intensity: the new value replaces whatever was pending
StorePending_KeepOldest(old, new) == IF old.set THEN old ELSE new

StorePending(old, new) == new

\* while (v2Sending): stopCommand waits as long as the lock is held
StopMustWait_Never(sending) == FALSE

StopMustWait(sending) == sending

\* sendCommand from its entry to its first await (or its early return),
\* as a function of the gate state it finds
EnterSendCommand(conn, sending, pend, calls, iA, iB, id, i, owner) ==
  IF ~conn
  THEN [sending |-> sending, pending |-> pend, calls |-> calls,
        iA |-> iA, iB |-> iB, started |-> {}, dropped |-> {}, gated |-> FALSE]
  ELSE IF sending
  THEN [sending |-> sending,
        pending |-> StorePending(pend, [set |-> TRUE, id |-> id, i |-> i]),
        calls |-> calls, iA |-> iA, iB |-> iB, started |-> {},
        dropped |-> {x \in {pend.id, id} :
                       /\ x # 0
                       /\ x # StorePending(pend, [set |-> TRUE, id |-> id, i |-> i]).id},
        gated |-> TRUE]
  ELSE [sending |-> TRUE, pending |-> pend,
        calls |-> calls \cup {[id |-> id, kind |-> "send", pc |-> FirstWritePc,
                               level |-> V2Level(i), i |-> i, owner |-> owner]},
        iA |-> V2Level(i), iB |-> V2Level(i), started |-> {id}, dropped |-> {},
        gated |-> FALSE]

\* the writes awaiting completion
WritesInFlight == {c \in v2Calls : c.pc \in WritePcs}
SendInFlight == \E c \in v2Calls : c.kind = "send"

\* protocol.sendCommand(intensity, writeChar) called with request id
GateSendCommand(id, i, owner) ==
  LET r == EnterSendCommand(v2Connected, v2Sending, v2Pending, v2Calls,
                            v2IntensityA, v2IntensityB, id, i, owner)
  IN /\ v2Sending' = r.sending
     /\ v2Pending' = r.pending
     /\ v2Calls' = r.calls
     /\ v2IntensityA' = IF r.started = {} /\ ResumesSend(owner)
                        THEN V2Level(i) ELSE r.iA
     /\ v2IntensityB' = r.iB
     /\ UNCHANGED <<v2Connected, hasWaveA, hasWaveB, devicePower, faults>>
     /\ startedIds' = startedIds \cup r.started
     /\ droppedIds' = droppedIds \cup r.dropped
     /\ arrivals' = IF r.started # {} THEN <<>>
                    ELSE IF SendInFlight
                         THEN Append(arrivals, [id |-> id, i |-> i])
                         ELSE arrivals
     /\ lastDone' = NoDone

\* a write of sendCommand call c completes with the given outcome; on
\* success of a waveform write the next write is issued, otherwise the
\* catch and finally blocks run, and with them the dispatch of the pending
\* value
GateSendWriteDone(c, outcome) ==
  /\ c \in v2Calls
  /\ c.kind = "send"
  /\ outcome = "ok" => v2Connected
  /\ faults' = (faults \/ outcome # "ok")
  /\ UNCHANGED <<hasWaveA, hasWaveB>>
  /\ IF outcome = "ok" /\ c.pc # "power"
     THEN /\ v2Calls' = (v2Calls \ {c}) \cup {[c EXCEPT !.pc = NextWritePc(c.pc)]}
          /\ UNCHANGED <<v2Connected, v2IntensityA, v2IntensityB, v2Sending,
                         v2Pending, devicePower, arrivals, startedIds,
                         droppedIds>>
          /\ lastDone' = NoDone
     ELSE LET conn == IF outcome = "disconnected" THEN FALSE ELSE v2Connected
              rest == v2Calls \ {c}
              r == IF v2Pending.set
                   THEN EnterSendCommand(conn, FALSE, NoPending, rest,
                                         v2IntensityA, v2IntensityB,
                                         v2Pending.id, v2Pending.i, PendingDispatch)
                   ELSE [sending |-> FALSE, pending |-> v2Pending,
                         calls |-> rest, iA |-> v2IntensityA,
                         iB |-> v2IntensityB, started |-> {}, dropped |-> {},
                         gated |-> FALSE]
          IN /\ v2Connected' = conn
             /\ v2Sending' = r.sending
             /\ v2Pending' = r.pending
             /\ v2Calls' = r.calls
             /\ v2IntensityA' = IF ResumesSend(c.owner) THEN V2Level(c.i)
                                ELSE r.iA
             /\ v2IntensityB' = r.iB
             /\ devicePower' = IF outcome = "ok" THEN c.level ELSE devicePower
             /\ startedIds' = startedIds \cup r.started
             /\ droppedIds' = droppedIds
             /\ arrivals' = <<>>
             /\ lastDone' = [done |-> TRUE, arrivals |-> arrivals,
                             started |-> r.started, conn |-> conn,
                             pendingAfter |-> r.pending]

\* protocol.stopCommand() from its entry to its first await: either the
\* 10 ms poll of the lock or the zero-power write
GateStopCommand(id, owner) ==
  /\ IF StopMustWait(v2Sending)
     THEN /\ v2Calls' = v2Calls \cup {[id |-> id, kind |-> "stop", pc |-> "poll",
                                       level |-> 0, i |-> 0, owner |-> owner]}
          /\ UNCHANGED <<v2Sending, v2Pending, v2IntensityA, v2IntensityB>>
     ELSE /\ v2Pending' = NoPending
          /\ v2Sending' = TRUE
          /\ v2IntensityA' = 0
          /\ v2IntensityB' = 0
          /\ v2Calls' = v2Calls \cup {[id |-> id, kind |-> "stop", pc |-> "power",
                                       level |-> 0, i |-> 0, owner |-> owner]}
  /\ UNCHANGED <<v2Connected, hasWaveA, hasWaveB, devicePower, faults,
                 startedIds, droppedIds, arrivals>>
  /\ lastDone' = NoDone

\* the 10 ms timer of a waiting stopCommand fires and finds the lock free
\* (a poll that finds it held changes nothing and waits again)
GateStopPoll(c) ==
  /\ c \in v2Calls
  /\ c.kind = "stop"
  /\ c.pc = "poll"
  /\ ~StopMustWait(v2Sending)
  /\ v2Pending' = NoPending
  /\ v2Sending' = TRUE
  /\ v2IntensityA' = 0
  /\ v2IntensityB' = 0
  /\ v2Calls' = (v2Calls \ {c}) \cup {[c EXCEPT !.pc = "power"]}
  /\ UNCHANGED <<v2Connected, hasWaveA, hasWaveB, devicePower, faults,
                 startedIds, droppedIds, arrivals>>
  /\ lastDone' = NoDone

\* the zero-power write of stopCommand call c completes: catch logs,
\* finally releases the lock
GateStopWriteDone(c, outcome) ==
  /\ c \in v2Calls
  /\ c.kind = "stop"
  /\ c.pc = "power"
  /\ outcome = "ok" => v2Connected
  /\ v2Sending' = FALSE
  /\ v2Calls' = v2Calls \ {c}
  /\ devicePower' = IF outcome = "ok" THEN 0 ELSE devicePower
  /\ faults' = (faults \/ outcome # "ok")
  /\ UNCHANGED <<v2Connected, v2Pending, v2IntensityA, v2IntensityB, hasWaveA,
                 hasWaveB, startedIds, droppedIds, arrivals>>
  /\ lastDone' = NoDone

\* the 'gattserverdisconnected' listener
GateDisconnected ==
  /\ v2Connected
  /\ v2Connected' = FALSE
  /\ faults' = TRUE
  /\ UNCHANGED <<v2IntensityA, v2IntensityB, v2Sending, v2Pending, hasWaveA,
                 hasWaveB, v2Calls, devicePower, startedIds, droppedIds,
                 arrivals>>
  /\ lastDone' = NoDone

\* state of a fresh V2 connection, for either set of characteristics found
InitGate ==
  /\ v2Connected = TRUE
  /\ v2IntensityA = 0
  /\ v2IntensityB = 0
  /\ v2Sending = FALSE
  /\ v2Pending = NoPending
  /\ hasWaveA \in BOOLEAN
  /\ hasWaveB \in BOOLEAN
  /\ v2Calls = {}
  /\ nReq = 0
  /\ lastReqLevel = 0
  /\ devicePower = 0
  /\ faults = FALSE
  /\ arrivals = <<>>
  /\ startedIds = {}
  /\ droppedIds = {}
  /\ lastDone = NoDone

\* ========================================================================
\* Device handle (haptic/vibrator.js, connect)
\* ========================================================================
NoTimer == 0
NoCommand == <<>>
TimerIds == 1..MaxTimers

NoIssue == [kind |-> "none", i |-> 0, cmd |-> NoCommand]
NoInfo == [raised |-> FALSE, writeFailed |-> FALSE, who |-> 0]
NoSend == [set |-> FALSE, i |-> 0, cmd |-> NoCommand]

\* the fields of the handle a caller can observe
HandleSnapshot(a, t, ts, c, i) ==
  [active |-> a, timer |-> t, timers |-> ts, lastCommand |-> c,
   lastIntensity |-> i]

NoSnap == HandleSnapshot(FALSE, NoTimer, {}, NoCommand, 0)

\* coyote.buildCommand(intensity): the frame built from the channel state
\* once channel A holds the new level
CoyoteCommand(i) ==
  BuildB0Command(0, 3, 3, RawLevel("coyote", i), cyIntensityB,
                 WaveformOr(cyWaveformA), WaveformOr(cyWaveformB))

\* protocol.buildCommand(intensity) as the handle calls it
BuildCommand(p, i) ==
  CASE p = "coyote" -> CoyoteCommand(i)
    [] p = "coyote-v2" -> EncodeV2Power(V2Level(i), v2IntensityB)
    [] OTHER -> StatelessCommand(p, i)

\* protocol.buildStopCommand()
BuildStopCommand(p) ==
  CASE p = "coyote" ->
         BuildB0Command(0, 3, 3, 0, 0, DefaultWaveform, DefaultWaveform)
    [] p = "coyote-v2" -> EncodeV2Power(0, 0)
    [] OTHER -> StatelessStopCommand(p)

\* startKeepalive(): protocol.keepaliveInterval && !_keepaliveTimer
ShouldStartKeepalive_NoTimerCheck(p, timer) == KeepaliveInterval(p) > 0

ShouldStartKeepalive(p, timer) ==
  KeepaliveInterval(p) > 0 /\ timer = NoTimer

\* the id setInterval returns
NewTimerId == CHOOSE t \in TimerIds \ timers :
                \A u \in TimerIds \ timers : t <= u

\* startKeepalive()
StartKeepalive ==
  IF ShouldStartKeepalive(protocol, keepaliveTimer)
  THEN /\ TimerIds \ timers # {}
       /\ keepaliveTimer' = NewTimerId
       /\ timers' = timers \cup {NewTimerId}
  ELSE UNCHANGED <<keepaliveTimer, timers>>

\* stopKeepalive()
StopKeepalive ==
  /\ keepaliveTimer' = NoTimer
  /\ timers' = IF keepaliveTimer # NoTimer THEN timers \ {keepaliveTimer}
               ELSE timers

\* sendCommand returns to send() without awaiting any write
SendReturnsAtOnce == HasSendCommand(protocol) /\ (~v2Connected \/ v2Sending)

\* bookkeeping of a call of the handle API
NoteCall(op, who) ==
  /\ callCtx' = [ui |-> who = 0, running |-> isRunning']
  /\ hEvent' = op
  /\ lastCall' = op
  /\ prevCall' = lastCall
  /\ prevSnap' = lastSnap
  /\ lastSnap' = HandleSnapshot(active', keepaliveTimer', timers',
                                lastCommand', lastIntensity')
  /\ UNCHANGED <<tickIssued, doneInfo>>

\* the body of send(intensity), up to its first suspension; via names the
\* handle function it runs for
SendBody(i, via, who) ==
  /\ nReq < MaxHandleCalls
  /\ nReq' = nReq + 1
  /\ lastReqLevel' = V2Level(i)
  /\ lastIntensity' = i
  /\ UNCHANGED <<protocol, serverConnected, cyIntensityB, cyWaveformA,
                 cyWaveformB>>
  /\ IF HasSendCommand(protocol)
     THEN /\ GateSendCommand(nReq + 1, i, [via |-> via, who |-> who])
          /\ lastCommand' = IF SendReturnsAtOnce
                            THEN EncodeV2Power(v2IntensityA', v2IntensityB')
                            ELSE lastCommand
          /\ recentSend' = [set |-> TRUE, i |-> i, cmd |-> NoCommand]
          /\ UNCHANGED <<charWrites, cyIntensityA>>
     ELSE /\ lastCommand' = BuildCommand(protocol, i)
          /\ recentSend' = [set |-> TRUE, i |-> i,
                            cmd |-> BuildCommand(protocol, i)]
          /\ cyIntensityA' = IF protocol = "coyote" THEN RawLevel(protocol, i)
                             ELSE cyIntensityA
          /\ charWrites' = charWrites \cup
                             {[id |-> nReq + 1, op |-> via, who |-> who,
                               cmd |-> BuildCommand(protocol, i)]}
          /\ UNCHANGED <<gateVars, devicePower, faults, arrivals, startedIds,
                         droppedIds, lastDone>>

\* handle.send(intensity)
HandleSend(i, who) ==
  /\ SendBody(i, "send", who)
  /\ UNCHANGED <<active, keepaliveTimer, timers, sinceStop>>
  /\ NoteCall("send", who)

\* handle.activate(intensity)
HandleActivate(i, who) ==
  /\ active' = TRUE
  /\ StartKeepalive
  /\ SendBody(i, "activate", who)
  /\ sinceStop' = FALSE
  /\ NoteCall("activate", who)

\* stop(): _lastIntensity = 0
IntensityAfterStop_Kept == lastIntensity

IntensityAfterStop == 0

\* handle.stop(), up to its first suspension
HandleStop(who) ==
  /\ nReq < MaxHandleCalls
  /\ nReq' = nReq + 1
  /\ lastReqLevel' = 0
  /\ active' = FALSE
  /\ StopKeepalive
  /\ lastCommand' = NoCommand
  /\ lastIntensity' = IntensityAfterStop
  /\ sinceStop' = TRUE
  /\ UNCHANGED <<protocol, serverConnected, cyWaveformA, cyWaveformB,
                 recentSend>>
  /\ IF HasStopCommand(protocol)
     THEN /\ GateStopCommand(nReq + 1, [via |-> "stop", who |-> who])
          /\ UNCHANGED <<charWrites, cyIntensityA, cyIntensityB>>
     ELSE /\ charWrites' = charWrites \cup
                             {[id |-> nReq + 1, op |-> "stop", who |-> who,
                               cmd |-> BuildStopCommand(protocol)]}
          /\ cyIntensityA' = IF protocol = "coyote" THEN 0 ELSE cyIntensityA
          /\ cyIntensityB' = IF protocol = "coyote" THEN 0 ELSE cyIntensityB
          /\ UNCHANGED <<gateVars, devicePower, faults, arrivals, startedIds,
                         droppedIds, lastDone>>
  /\ NoteCall("stop", who)

\* handle.disconnect()
HandleDisconnect ==
  /\ StopKeepalive
  /\ serverConnected' = FALSE
  /\ UNCHANGED <<protocol, active, lastCommand, lastIntensity, charWrites,
                 cyVars, gateVars, gateObs, sinceStop, recentSend>>
  /\ NoteCall("disconnect", 0)

\* what a keepalive tick re-issues: the intensity for a protocol with
\* sendCommand, else the stored command if there is one
TickIssue_StopFrame ==
  IF HasSendCommand(protocol)
  THEN [kind |-> "intensity", i |-> 0, cmd |-> NoCommand]
  ELSE [kind |-> "cmd", i |-> 0, cmd |-> BuildStopCommand(protocol)]

TickIssue ==
  IF HasSendCommand(protocol)
  THEN [kind |-> "intensity", i |-> lastIntensity, cmd |-> NoCommand]
  ELSE IF lastCommand # NoCommand
       THEN [kind |-> "cmd", i |-> 0, cmd |-> lastCommand]
       ELSE NoIssue

\* the setInterval callback of timer t, up to its first suspension
HandleTick(t) ==
  /\ t \in timers
  /\ nReq < MaxHandleCalls
  /\ nReq' = nReq + 1
  /\ hEvent' = "tick"
  /\ UNCHANGED <<protocol, active, keepaliveTimer, lastCommand, lastIntensity,
                 timers, serverConnected, cyVars, doneInfo, lastCall, prevCall,
                 lastSnap, prevSnap, sinceStop, callCtx, recentSend, lastReqLevel>>
  /\ IF ~active
     THEN /\ tickIssued' = NoIssue
          /\ UNCHANGED <<charWrites, gateVars, devicePower, faults, arrivals,
                         startedIds, droppedIds, lastDone>>
     ELSE /\ tickIssued' = TickIssue
          /\ IF TickIssue.kind = "intensity"
             THEN /\ GateSendCommand(nReq + 1, TickIssue.i,
                                     [via |-> "tick", who |-> 0])
                  /\ UNCHANGED charWrites
             ELSE /\ charWrites' =
                       IF TickIssue.kind = "cmd"
                       THEN charWrites \cup {[id |-> nReq + 1, op |-> "tick",
                                              who |-> 0, cmd |-> TickIssue.cmd]}
                       ELSE charWrites
                  /\ UNCHANGED <<gateVars, devicePower, faults, arrivals,
                                 startedIds, droppedIds, lastDone>>

\* the write of writeToChar call w completes; a failure rejects send() or
\* stop() towards their caller and is caught and logged in a keepalive tick
RaisesOnFailure_Always(op) == TRUE

RaisesOnFailure(op) == op \in {"send", "activate", "stop"}

HandleCharWriteDone(w, ok) ==
  /\ w \in charWrites
  /\ ok => serverConnected
  /\ charWrites' = charWrites \ {w}
  /\ hEvent' = IF w.op = "stop" THEN "stopDone"
               ELSE IF w.op = "tick" THEN "tickDone" ELSE "sendDone"
  /\ doneInfo' = [raised |-> (~ok /\ RaisesOnFailure(w.op)),
                  writeFailed |-> ~ok, who |-> w.who]
  /\ UNCHANGED <<protocol, active, keepaliveTimer, lastCommand, lastIntensity,
                 timers, serverConnected, cyVars, gateVars, gateObs,
                 tickIssued, lastCall, prevCall, lastSnap, prevSnap,
                 sinceStop, callCtx, recentSend>>

\* a write of the V2 sendCommand call c completes; when the call returns,
\* the send() that awaited it stores the fallback command
HandleV2SendWriteDone(c, outcome) ==
  /\ GateSendWriteDone(c, outcome)
  /\ outcome = "ok" => serverConnected
  /\ LET returns == ~(outcome = "ok" /\ c.pc # "power")
     IN /\ lastCommand' = IF returns /\ ResumesSend(c.owner)
                          THEN EncodeV2Power(v2IntensityA', v2IntensityB')
                          ELSE lastCommand
        /\ hEvent' = IF returns /\ c.owner.via # "pending"
                     THEN (IF c.owner.via = "tick" THEN "tickDone"
                           ELSE "sendDone")
                     ELSE "write"
        /\ doneInfo' = IF returns /\ c.owner.via # "pending"
                       THEN [raised |-> FALSE, writeFailed |-> outcome # "ok",
                             who |-> c.owner.who]
                       ELSE doneInfo
  /\ UNCHANGED <<nReq, lastReqLevel, protocol, active, keepaliveTimer,
                 lastIntensity, timers, charWrites, serverConnected, cyVars,
                 tickIssued, lastCall, prevCall, lastSnap, prevSnap,
                 sinceStop, callCtx, recentSend>>

\* the poll timer of a waiting V2 stopCommand fires with the lock free
HandleV2StopPoll(c) ==
  /\ GateStopPoll(c)
  /\ hEvent' = "write"
  /\ UNCHANGED <<nReq, lastReqLevel, handleVars, cyVars, tickIssued, doneInfo,
                 lastCall, prevCall, lastSnap, prevSnap, sinceStop, callCtx,
                 recentSend>>

\* the zero-power write of V2 stopCommand call c completes and stop() returns
HandleV2StopWriteDone(c, outcome) ==
  /\ GateStopWriteDone(c, outcome)
  /\ outcome = "ok" => serverConnected
  /\ hEvent' = "stopDone"
  /\ doneInfo' = [raised |-> FALSE, writeFailed |-> outcome # "ok",
                  who |-> c.owner.who]
  /\ UNCHANGED <<nReq, lastReqLevel, handleVars, cyVars, tickIssued, lastCall,
                 prevCall, lastSnap, prevSnap, sinceStop, callCtx, recentSend>>

\* the 'gattserverdisconnected' event reaches the V2 listener
HandleV2Disconnected ==
  /\ HasSendCommand(protocol)
  /\ GateDisconnected
  /\ hEvent' = "write"
  /\ UNCHANGED <<nReq, lastReqLevel, handleVars, cyVars, tickIssued, doneInfo,
                 lastCall, prevCall, lastSnap, prevSnap, sinceStop, callCtx,
                 recentSend>>

\* state of the handle connect() returns, for protocol p
InitHandle(p) ==
  /\ protocol = p
  /\ active = FALSE
  /\ keepaliveTimer = NoTimer
  /\ lastCommand = NoCommand
  /\ lastIntensity = 0
  /\ timers = {}
  /\ charWrites = {}
  /\ serverConnected = TRUE
  /\ cyIntensityA = 0
  /\ cyIntensityB = 0
  /\ cyWaveformA = NoWaveform
  /\ cyWaveformB = NoWaveform
  /\ hEvent = "none"
  /\ tickIssued = NoIssue
  /\ doneInfo = NoInfo
  /\ lastCall = "none"
  /\ prevCall = "none"
  /\ lastSnap = NoSnap
  /\ prevSnap = NoSnap
  /\ sinceStop = FALSE
  /\ callCtx = [ui |-> TRUE, running |-> FALSE]
  /\ recentSend = NoSend

\* ========================================================================
\* A buildCommand call on the protocol object of the handle
\* ========================================================================
\* intensity arguments, from below 0 to above 1
BuildIntensities == (0 - OverRange)..(IntensityDen + OverRange)

\* protocol.buildCommand(intensity, arg): the frame returned, and the
\* channel state the two Coyote protocols update on the way
BuildCommandCall ==
  /\ bPc = "input"
  /\ bPc' = "built"
  /\ bCommand' = IF protocol \in StatelessProtocols
                 THEN StatelessCommandWith(protocol, bIntensity, bArg)
                 ELSE BuildCommand(protocol, bIntensity)
  /\ cyIntensityA' = IF protocol = "coyote"
                     THEN RawLevel("coyote", bIntensity) ELSE cyIntensityA
  /\ v2IntensityA' = IF protocol = "coyote-v2"
                     THEN V2Level(bIntensity) ELSE v2IntensityA
  /\ UNCHANGED <<v2Connected, v2IntensityB, v2Sending, v2Pending, hasWaveA,
                 hasWaveB, v2Calls, gateObs, handleVars, cyIntensityB,
                 cyWaveformA, cyWaveformB, handleObs, sessionVars,
                 connectVars, coyoteObs, detectVars, configVars, bIntensity, bArg,
                 bStopPc,
                 bStopCommand>>

\* protocol.buildStopCommand(arg): the frame returned; the two Coyote
\* protocols zero both channel intensities
BuildStopCommandCall ==
  /\ bStopPc = "input"
  /\ bStopPc' = "built"
  /\ bStopCommand' = IF protocol \in StatelessProtocols
                     THEN StatelessStopCommandWith(protocol, bArg)
                     ELSE BuildStopCommand(protocol)
  /\ cyIntensityA' = IF protocol = "coyote" THEN 0 ELSE cyIntensityA
  /\ cyIntensityB' = IF protocol = "coyote" THEN 0 ELSE cyIntensityB
  /\ v2IntensityA' = IF protocol = "coyote-v2" THEN 0 ELSE v2IntensityA
  /\ v2IntensityB' = IF protocol = "coyote-v2" THEN 0 ELSE v2IntensityB
  /\ UNCHANGED <<v2Connected, v2Sending, v2Pending, hasWaveA, hasWaveB,
                 v2Calls, gateObs, handleVars, cyWaveformA, cyWaveformB,
                 handleObs, sessionVars, connectVars, coyoteObs, detectVars,
                 configVars, bPc,
                 bIntensity, bCommand, bArg>>

InitBuild ==
  /\ bPc = "idle"
  /\ bIntensity = 0
  /\ bCommand = NoCommand
  /\ bArg = 0
  /\ bStopPc = "idle"
  /\ bStopCommand = NoCommand

\* ========================================================================
\* A sequence of calls on a Coyote protocol object (coyote, or the legacy
\* v2Protocol): buildCommand, buildFullCommand, buildStopCommand
\* ========================================================================
CoyoteProtocols == {"coyote", "coyote-v2"}

\* arguments of the calls: intensities within [0, 1], channel intensities
\* within 0..200, and a waveform other than the default one
CoyoteIntensities == {1, IntensityDen \div 2, IntensityDen}
Absent == 0 - 1
FullIntensities == {Absent, 0, 80, 200}
OtherWaveform == [freq |-> <<10, 200, 700, 1000>>,
                  intensity |-> <<0, 30, 60, 100>>]
FullWaveforms == {NoWaveform, OtherWaveform}

\* if (motorIndex === 0) ... intensityA = level; else ... intensityB = level
UpdatesA(motorIndex) == motorIndex = 0

UpdatesB_Always(motorIndex) == TRUE

UpdatesB(motorIndex) == motorIndex # 0

\* the level buildCommand derives for protocol p
CoyoteLevel(p, i) == IF p = "coyote" THEN RawLevel("coyote", i) ELSE V2Level(i)

\* the frame built from the channel state
CoyoteFrame(p, iA, iB, wA, wB) ==
  IF p = "coyote"
  THEN BuildB0Command(0, 3, 3, iA, iB, WaveformOr(wA), WaveformOr(wB))
  ELSE EncodeV2Power(iA, iB)

\* the intensities the protocol object holds
HeldA == IF protocol = "coyote" THEN cyIntensityA ELSE v2IntensityA
HeldB == IF protocol = "coyote" THEN cyIntensityB ELSE v2IntensityB

\* assignment of new channel intensities to the state of the protocol
SetHeld(a, b) ==
  /\ cyIntensityA' = IF protocol = "coyote" THEN a ELSE cyIntensityA
  /\ cyIntensityB' = IF protocol = "coyote" THEN b ELSE cyIntensityB
  /\ v2IntensityA' = IF protocol = "coyote" THEN v2IntensityA ELSE a
  /\ v2IntensityB' = IF protocol = "coyote" THEN v2IntensityB ELSE b

\* what no call on the protocol object touches
CoyoteUntouched ==
  UNCHANGED <<v2Connected, v2Sending, v2Pending, hasWaveA, hasWaveB, v2Calls,
              gateObs, handleVars, handleObs, sessionVars, connectVars,
              buildVars, detectVars, configVars>>

\* every call is recorded as the latest one
NoteCoyoteCall(op) ==
  /\ cyCalls < MaxCoyoteCalls
  /\ cyCalls' = cyCalls + 1
  /\ cyPrevOp' = cyOp
  /\ cyOp' = op

\* buildCommand(intensity, motorIndex)
CoyoteBuildCommand(i, motorIndex) ==
  LET level == CoyoteLevel(protocol, i)
      a == IF UpdatesA(motorIndex) THEN level ELSE HeldA
      b == IF UpdatesB(motorIndex) THEN level ELSE HeldB
  IN /\ NoteCoyoteCall("build")
     /\ SetHeld(a, b)
     /\ cyFrame' = CoyoteFrame(protocol, a, b, cyWaveformA, cyWaveformB)
     /\ cyArgs' = [channel |-> motorIndex, level |-> level]
     /\ setIntA' = IF motorIndex = 0 THEN level ELSE setIntA
     /\ setIntB' = IF motorIndex = 0 THEN setIntB ELSE level
     /\ UNCHANGED <<cyWaveformA, cyWaveformB, setWaveA, setWaveB, cyStopped>>
     /\ CoyoteUntouched

\* coyote.buildFullCommand({intensityA, intensityB, waveformA, waveformB}),
\* each option given or left out
CoyoteBuildFullCommand(oA, oB, wA, wB) ==
  LET a == IF oA # Absent THEN oA ELSE cyIntensityA
      b == IF oB # Absent THEN oB ELSE cyIntensityB
      na == IF wA # NoWaveform THEN wA ELSE cyWaveformA
      nb == IF wB # NoWaveform THEN wB ELSE cyWaveformB
  IN /\ protocol = "coyote"
     /\ NoteCoyoteCall("full")
     /\ SetHeld(a, b)
     /\ cyWaveformA' = na
     /\ cyWaveformB' = nb
     /\ cyFrame' = CoyoteFrame(protocol, a, b, na, nb)
     /\ setIntA' = IF oA = Absent THEN setIntA ELSE oA
     /\ setIntB' = IF oB = Absent THEN setIntB ELSE oB
     /\ setWaveA' = IF wA = NoWaveform THEN setWaveA ELSE wA
     /\ setWaveB' = IF wB = NoWaveform THEN setWaveB ELSE wB
     /\ UNCHANGED <<cyArgs, cyStopped>>
     /\ CoyoteUntouched

\* buildStopCommand(): both intensities zeroed, the waveforms left as held
CoyoteBuildStopCommand ==
  /\ NoteCoyoteCall("stop")
  /\ SetHeld(0, 0)
  /\ cyFrame' = CoyoteFrame(protocol, 0, 0, NoWaveform, NoWaveform)
  /\ cyStopped' = TRUE
  /\ setIntA' = 0
  /\ setIntB' = 0
  /\ UNCHANGED <<cyWaveformA, cyWaveformB, cyArgs, setWaveA, setWaveB>>
  /\ CoyoteUntouched

InitCoyoteObs ==
  /\ cyOp = "none"
  /\ cyPrevOp = "none"
  /\ cyArgs = [channel |-> 0, level |-> 0]
  /\ cyFrame = NoCommand
  /\ cyCalls = 0
  /\ cyStopped = FALSE
  /\ setIntA = 0
  /\ setIntB = 0
  /\ setWaveA = NoWaveform
  /\ setWaveB = NoWaveform

\* ========================================================================
\* Session controller (main.js). micConnected does not change while the
\* page is in use, so promptMode of every runSequence call equals it; with
\* no microphone runSequence runs in loading mode and listener stays null
\* ========================================================================
NoSession == 0
NoLoop == 0
LoopIds == 1..MaxLoops

IdleLoop == [pc |-> "idle", i |-> 0, exc |-> FALSE]
FreeLoops == {l \in LoopIds : loops[l].pc \in {"idle", "done"}}

\* isSessionComplete(session); on a null session the property read throws
SessionCheckThrows == session = NoSession

IsSessionComplete_Never == FALSE

IsSessionComplete == sessionElapsed

\* the finally block of runSequence; exc tells whether the catch block ran
Teardown(l, exc) ==
  /\ isRunning' = FALSE
  /\ session' = NoSession
  /\ loops' = [loops EXCEPT ![l] = [pc |-> "done", i |-> 0, exc |-> exc]]
  /\ listening' = NoLoop
  /\ stoppedLoops' = stoppedLoops \ {l}
  /\ resumedLoops' = resumedLoops \ {l}
  /\ UNCHANGED <<sessionElapsed, clickerEnabled, nSessions, micConnected,
                 genParity>>

\* await device.activate(intensity), then the reward wait once it returns
ActivatePhase(l, i) ==
  /\ HandleActivate(i, l)
  /\ loops' = [loops EXCEPT ![l] =
                 [pc |-> IF SendReturnsAtOnce THEN "reward" ELSE "activate",
                  i |-> i, exc |-> FALSE]]

\* getNextValues(settings, session), then the click and its wait when the
\* clicker is on, else the activation at once
ValuesPhase(l) ==
  \E i \in EndIntensities :
    /\ genParity' = ~genParity
    /\ IF clickerEnabled
       THEN /\ loops' = [loops EXCEPT ![l] =
                           [pc |-> "click", i |-> i, exc |-> FALSE]]
            /\ UNCHANGED <<gateVars, gateObs, handleVars, cyVars, handleObs>>
       ELSE ActivatePhase(l, i)

\* one pass of the while loop from its test to its first await; busy is the
\* loop the listener is already listening for
LoopHead(l, running, sess, busy) ==
  IF ~running
  THEN /\ Teardown(l, FALSE)
       /\ UNCHANGED <<currentPromptIndex, completedSessions, gateVars,
                      gateObs, handleVars, cyVars, handleObs>>
  ELSE IF sess = NoSession
  THEN /\ Teardown(l, TRUE)
       /\ UNCHANGED <<currentPromptIndex, completedSessions, gateVars,
                      gateObs, handleVars, cyVars, handleObs>>
  ELSE IF IsSessionComplete'
  THEN \* setStatus('Session complete!') and break
       /\ completedSessions' = completedSessions \cup {sess}
       /\ Teardown(l, FALSE)
       /\ UNCHANGED <<currentPromptIndex, gateVars, gateObs, handleVars,
                      cyVars, handleObs>>
  ELSE IF micConnected /\ busy # NoLoop
  THEN \* listen() rejects with 'Already listening'
       /\ Teardown(l, TRUE)
       /\ UNCHANGED <<currentPromptIndex, completedSessions, gateVars,
                      gateObs, handleVars, cyVars, handleObs>>
  ELSE /\ isRunning' = running
       /\ session' = sess
       /\ resumedLoops' = IF l \in stoppedLoops
                          THEN resumedLoops \cup {l}
                          ELSE resumedLoops
       /\ UNCHANGED <<clickerEnabled, micConnected, currentPromptIndex,
                      stoppedLoops, completedSessions>>
       /\ IF micConnected
          THEN /\ listening' = l
               /\ loops' = [loops EXCEPT ![l] =
                              [pc |-> "listen", i |-> 0, exc |-> FALSE]]
               /\ UNCHANGED <<genParity, gateVars, gateObs, handleVars,
                              cyVars, handleObs>>
          ELSE /\ listening' = busy
               /\ ValuesPhase(l)

\* beginSession() -> runSequence(), reached from the Start button while no
\* session is running
BeginSession(l) ==
  /\ UNCHANGED setupVars
  /\ ~isRunning
  /\ l \in FreeLoops
  /\ \A k \in FreeLoops : l <= k
  /\ nSessions < MaxSessions
  /\ nSessions' = nSessions + 1
  /\ sessionElapsed' = FALSE
  /\ LoopHead(l, TRUE, nSessions + 1, NoLoop)

\* stopSequence(), reached from the Stop button while a session is running
StopSequence ==
  /\ UNCHANGED setupVars
  /\ isRunning
  /\ isRunning' = FALSE
  /\ listening' = NoLoop
  /\ HandleStop(0)
  /\ stoppedLoops' = stoppedLoops \cup
                       {l \in LoopIds : loops[l].pc \notin {"idle", "done"}}
  /\ UNCHANGED <<session, sessionElapsed, clickerEnabled, loops, nSessions,
                 completedSessions,
                 micConnected, currentPromptIndex, genParity, resumedLoops>>

\* the clock passes the end of the session
SessionTimeUp ==
  /\ UNCHANGED setupVars
  /\ session # NoSession
  /\ ~sessionElapsed
  /\ sessionElapsed' = TRUE
  /\ UNCHANGED <<isRunning, session, clickerEnabled, loops, nSessions,
                 completedSessions,
                 promptVars, gateVars, gateObs, handleVars, cyVars, handleObs>>

\* the 200-500 ms wait between click and activation ends
ClickTimer(l) ==
  /\ UNCHANGED setupVars
  /\ loops[l].pc = "click"
  /\ UNCHANGED <<isRunning, session, sessionElapsed, clickerEnabled, nSessions,
                 completedSessions,
                 promptVars>>
  /\ ActivatePhase(l, loops[l].i)

\* the reward wait ends: await device.stop()
RewardTimer(l) ==
  /\ UNCHANGED setupVars
  /\ loops[l].pc = "reward"
  /\ UNCHANGED <<isRunning, session, sessionElapsed, clickerEnabled, nSessions,
                 completedSessions,
                 promptVars>>
  /\ HandleStop(l)
  /\ loops' = [loops EXCEPT ![l].pc = "stop"]

\* the 50 ms settle wait ends: in prompt mode the prompt index moves on;
\* then if (!isRunning) break, else the delay wait
SettleTimer(l) ==
  /\ UNCHANGED setupVars
  /\ loops[l].pc = "settle"
  /\ UNCHANGED completedSessions
  /\ UNCHANGED <<gateVars, gateObs, handleVars, cyVars, handleObs>>
  /\ currentPromptIndex' = IF micConnected
                           THEN (currentPromptIndex + 1) % NumPrompts
                           ELSE currentPromptIndex
  /\ IF ~isRunning
     THEN Teardown(l, FALSE)
     ELSE /\ loops' = [loops EXCEPT ![l].pc = "delay"]
          /\ UNCHANGED <<isRunning, session, sessionElapsed, clickerEnabled,
                         nSessions, micConnected, listening, genParity,
                         stoppedLoops, resumedLoops>>

\* the inter-cycle delay ends and the while loop goes round
DelayTimer(l) ==
  /\ UNCHANGED setupVars
  /\ loops[l].pc = "delay"
  /\ UNCHANGED <<sessionElapsed, nSessions>>
  /\ LoopHead(l, isRunning, session, listening)

\* listener.listen() settles for the loop that awaits it: with a transcript
\* that matches a variant of the prompt, with one that matches none, or by
\* rejecting on a speech error
ListenOutcomes == {"match", "nomatch", "error"}

\* the branch for a transcript that matched no variant: 'Try again' and
\* the 1500 ms wait
TryAgain_NextPrompt(l) ==
  /\ loops' = [loops EXCEPT ![l].pc = "retry"]
  /\ currentPromptIndex' = (currentPromptIndex + 1) % NumPrompts
  /\ UNCHANGED <<genParity, gateVars, gateObs, handleVars, cyVars, handleObs>>

TryAgain(l) ==
  /\ loops' = [loops EXCEPT ![l].pc = "retry"]
  /\ UNCHANGED <<currentPromptIndex, genParity, gateVars, gateObs,
                 handleVars, cyVars, handleObs>>

ListenDone(l, outcome) ==
  /\ UNCHANGED setupVars
  /\ loops[l].pc = "listen"
  /\ listening = l
  /\ UNCHANGED completedSessions
  /\ IF outcome = "error"
     THEN /\ Teardown(l, TRUE)
          /\ UNCHANGED <<currentPromptIndex, gateVars, gateObs, handleVars,
                         cyVars, handleObs>>
     ELSE IF ~isRunning
     THEN /\ Teardown(l, FALSE)
          /\ UNCHANGED <<currentPromptIndex, gateVars, gateObs, handleVars,
                         cyVars, handleObs>>
     ELSE /\ listening' = NoLoop
          /\ UNCHANGED <<isRunning, session, sessionElapsed, clickerEnabled,
                         nSessions, micConnected, stoppedLoops, resumedLoops>>
          /\ IF outcome = "match"
             THEN ValuesPhase(l) /\ UNCHANGED currentPromptIndex
             ELSE TryAgain(l)

\* the 1500 ms wait after 'Try again' ends and the while loop goes round
RetryTimer(l) ==
  /\ UNCHANGED setupVars
  /\ loops[l].pc = "retry"
  /\ UNCHANGED <<sessionElapsed, nSessions>>
  /\ LoopHead(l, isRunning, session, listening)

\* the loop that awaited a handle call resumes with its result
LoopResume(who, op, raised) ==
  IF who \in LoopIds /\ op \in {"activate", "stop"}
  THEN IF raised
       THEN Teardown(who, TRUE)
            /\ UNCHANGED <<currentPromptIndex, completedSessions>>
       ELSE /\ loops' = [loops EXCEPT ![who].pc =
                           IF op = "activate" THEN "reward" ELSE "settle"]
            /\ UNCHANGED <<isRunning, session, sessionElapsed, clickerEnabled,
                           nSessions, completedSessions, promptVars>>
  ELSE UNCHANGED sessionVars

SessionTick(t) == HandleTick(t) /\ UNCHANGED <<sessionVars, setupVars>>

SessionCharWriteDone(w, ok) ==
  /\ UNCHANGED setupVars
  /\ HandleCharWriteDone(w, ok)
  /\ LoopResume(w.who, w.op, ~ok /\ RaisesOnFailure(w.op))

SessionV2SendWriteDone(c, o) ==
  /\ UNCHANGED setupVars
  /\ HandleV2SendWriteDone(c, o)
  /\ IF ~(o = "ok" /\ c.pc # "power")
     THEN LoopResume(c.owner.who, c.owner.via, FALSE)
     ELSE UNCHANGED sessionVars

SessionV2StopPoll(c) == HandleV2StopPoll(c) /\ UNCHANGED <<sessionVars, setupVars>>

SessionV2StopWriteDone(c, o) ==
  /\ UNCHANGED setupVars
  /\ HandleV2StopWriteDone(c, o)
  /\ LoopResume(c.owner.who, c.owner.via, FALSE)

SessionV2Disconnected == HandleV2Disconnected /\ UNCHANGED <<sessionVars, setupVars>>

\* state of the page once a device is connected, before any session
InitSession ==
  /\ isRunning = FALSE
  /\ session = NoSession
  /\ sessionElapsed = FALSE
  /\ loops = [l \in LoopIds |-> IdleLoop]
  /\ nSessions = 0
  /\ completedSessions = {}
  /\ listening = NoLoop
  /\ currentPromptIndex = 0
  /\ genParity = FALSE
  /\ stoppedLoops = {}
  /\ resumedLoops = {}

\* ========================================================================
\* Calls of the Coyote encoders (haptic/protocols/coyote.js) and of the
\* documented decoder (COYOTE-PROTOCOL.md)
\* ========================================================================
\* decodeFrequency(val), the reverse given with the protocol description
DecodeFrequency(val) ==
  IF val <= 100 THEN val
  ELSE IF val <= 200 THEN ((val - 100) * 5) + 100
  ELSE ((val - 200) * 10) + 600

\* frequencies in Hz an encodeFrequency call is followed for
MinHz == 10
MaxHz == 1000
Frequencies == MinHz..MaxHz

\* V2 power levels a call is followed for: every bit alone, every run of low
\* bits, and values around the byte and field borders
PowerBits == 11
RECURSIVE Pow2(_)
Pow2(n) == IF n = 0 THEN 1 ELSE 2 * Pow2(n - 1)
PowerLevels ==
  {0, 5, 1365, 682} \cup {Pow2(k) : k \in 0..(PowerBits - 1)}
  \cup {Pow2(k) - 1 : k \in 1..PowerBits}

\* arguments of the buildB0Command calls followed
B0Intensities == {0, 200}
B0Args ==
  [sequence : 0..15, modeA : 0..3, modeB : 0..3, intensityA : B0Intensities,
   intensityB : {0}]
FrequencyArgs == [hz : Frequencies]
PowerArgs == [a : PowerLevels, b : PowerLevels]

\* pulse counts and widths (0..31) and delays (0..1023) an encodeV2Wave call
\* is followed for: every bit alone, all bits, and the values the protocol
\* sends (10, 100, 10)
WaveCounts == {0, 10, 31} \cup {Pow2(k) : k \in 0..4}
WaveDelays == {0, 100, 1023} \cup {Pow2(k) : k \in 0..9}
WaveArgs == [x : WaveCounts, y : WaveDelays, z : WaveCounts]

\* encodeFrequency(hz) is called
EncodeFrequencyCall ==
  /\ callPc = "input"
  /\ callFn = "encodeFrequency"
  /\ callOut' = EncodeFrequency(callArgs.hz)
  /\ callPc' = "done"
  /\ UNCHANGED <<callFn, callArgs>>
  /\ UNCHANGED <<gateVars, gateObs, handleVars, cyVars, handleObs,
                 sessionVars, connectVars, buildVars, coyoteObs, detectVars,
                 arcVars, valueVars, discoverVars>>

\* encodeV2Power(a, b) is called
EncodeV2PowerCall ==
  /\ callPc = "input"
  /\ callFn = "encodeV2Power"
  /\ callOut' = EncodeV2Power(callArgs.a, callArgs.b)
  /\ callPc' = "done"
  /\ UNCHANGED <<callFn, callArgs>>
  /\ UNCHANGED <<gateVars, gateObs, handleVars, cyVars, handleObs,
                 sessionVars, connectVars, buildVars, coyoteObs, detectVars,
                 arcVars, valueVars, discoverVars>>

\* encodeV2Wave(x, y, z) is called
EncodeV2WaveCall ==
  /\ callPc = "input"
  /\ callFn = "encodeV2Wave"
  /\ callOut' = EncodeV2Wave(callArgs.x, callArgs.y, callArgs.z)
  /\ callPc' = "done"
  /\ UNCHANGED <<callFn, callArgs>>
  /\ UNCHANGED <<gateVars, gateObs, handleVars, cyVars, handleObs,
                 sessionVars, connectVars, buildVars, coyoteObs, detectVars,
                 arcVars, valueVars, discoverVars>>

\* buildB0Command(options) is called with the default waveforms
BuildB0CommandCall ==
  /\ callPc = "input"
  /\ callFn = "buildB0Command"
  /\ callOut' = BuildB0Command(callArgs.sequence, callArgs.modeA,
                               callArgs.modeB, callArgs.intensityA,
                               callArgs.intensityB, DefaultWaveform,
                               DefaultWaveform)
  /\ callPc' = "done"
  /\ UNCHANGED <<callFn, callArgs>>
  /\ UNCHANGED <<gateVars, gateObs, handleVars, cyVars, handleObs,
                 sessionVars, connectVars, buildVars, coyoteObs, detectVars,
                 arcVars, valueVars, discoverVars>>

\* no call followed
InitCall ==
  /\ callFn = "none"
  /\ callArgs = <<>>
  /\ callOut = <<>>
  /\ callPc = "idle"

\* ========================================================================
\* Session arcs (config.js, SESSION_ARCS)
\* ========================================================================
\* progress is sampled at t = n / ArcSteps, n in 0..ArcSteps
ArcSteps == 10
\* fractions are numerators over ArcOne; every product below is exact
ArcOne == 40 * ArcSteps

ArcNames ==
  {"constant", "open_up", "close_down", "open_down", "close_up",
   "slide_up_wide", "slide_up", "slide_up_narrow", "slide_down_wide",
   "slide_down", "slide_down_narrow", "focus_high", "focus_low"}

\* the progress value of the n-th sample
ArcProgress(n) == (n * ArcOne) \div ArcSteps

\* a decimal literal given in hundredths: 0.25 is Lit(25)
Lit(hundredths) == (ArcOne * hundredths) \div 100
\* x * 0.25 is Times(x, 25)
Times(x, hundredths) == (x * hundredths) \div 100

\* Math.max(0, x)
AtLeastZero_Off(x) == x

AtLeastZero(x) == IF x < 0 THEN 0 ELSE x

\* Math.min(1, x)
AtMostOne(x) == IF x > ArcOne THEN ArcOne ELSE x

\* SESSION_ARCS[name](t)
SessionArc(name, t) ==
  CASE name = "constant" -> [min |-> 0, max |-> ArcOne]
    [] name = "open_up" -> [min |-> 0, max |-> t]
    [] name = "close_down" -> [min |-> 0, max |-> ArcOne - t]
    [] name = "open_down" -> [min |-> ArcOne - t, max |-> ArcOne]
    [] name = "close_up" -> [min |-> t, max |-> ArcOne]
    [] name = "slide_up_wide" ->
         [min |-> Times(t, 25), max |-> Lit(75) + Times(t, 25)]
    [] name = "slide_up" ->
         [min |-> Times(t, 50), max |-> Lit(50) + Times(t, 50)]
    [] name = "slide_up_narrow" ->
         [min |-> Times(t, 75), max |-> Lit(25) + Times(t, 75)]
    [] name = "slide_down_wide" ->
         [min |-> Lit(25) - Times(t, 25), max |-> ArcOne - Times(t, 25)]
    [] name = "slide_down" ->
         [min |-> Lit(50) - Times(t, 50), max |-> ArcOne - Times(t, 50)]
    [] name = "slide_down_narrow" ->
         [min |-> Lit(75) - Times(t, 75), max |-> ArcOne - Times(t, 75)]
    [] name = "focus_high" ->
         LET width == ArcOne - Times(t, 80)
         IN [min |-> AtLeastZero(t - width \div 2),
             max |-> AtMostOne(t + width \div 2)]
    [] name = "focus_low" ->
         LET width == ArcOne - Times(t, 80)
             center == ArcOne - t
         IN [min |-> AtLeastZero(center - width \div 2),
             max |-> AtMostOne(center + width \div 2)]

\* an arc function is called with a progress value
SessionArcCall ==
  /\ arcPc = "input"
  /\ arcPc' = "done"
  /\ arcRange' = SessionArc(arcName, ArcProgress(arcT))
  /\ UNCHANGED <<arcName, arcT>>
  /\ UNCHANGED <<gateVars, gateObs, handleVars, cyVars, handleObs,
                 sessionVars, connectVars, buildVars, coyoteObs, detectVars,
                 valueVars, callVars, discoverVars>>

InitArc ==
  /\ arcName = "constant"
  /\ arcT = 0
  /\ arcPc = "idle"
  /\ arcRange = [min |-> 0, max |-> 0]

\* ========================================================================
\* JavaScript numbers: IEEE 754 binary64 with round-to-nearest, ties to
\* even. A number is s * m * 2^e with s the sign and m either 0 or a
\* natural number of exactly Precision binary digits; naturals are written
\* in base Base = 2^15, least significant digit first, no leading zero digit
\* (<<>> is 0). Only values in the normal range occur.
\* ========================================================================
Precision == 53
Base == 32768

Front(s) == SubSeq(s, 1, Len(s) - 1)

RECURSIVE TrimTop(_)
TrimTop(a) == IF a # <<>> /\ a[Len(a)] = 0 THEN TrimTop(Front(a)) ELSE a

RECURSIVE NatOf(_)
NatOf(n) == IF n = 0 THEN <<>> ELSE <<n % Base>> \o NatOf(n \div Base)

RECURSIVE AddWithCarry(_, _, _)
AddWithCarry(a, b, c) ==
  IF a = <<>> /\ b = <<>>
  THEN IF c = 0 THEN <<>> ELSE <<c>>
  ELSE LET x == IF a = <<>> THEN 0 ELSE Head(a)
           y == IF b = <<>> THEN 0 ELSE Head(b)
           s == x + y + c
       IN <<s % Base>> \o AddWithCarry(IF a = <<>> THEN a ELSE Tail(a),
                                      IF b = <<>> THEN b ELSE Tail(b),
                                      s \div Base)

NatAdd(a, b) == AddWithCarry(a, b, 0)

\* a - b for a >= b
RECURSIVE SubWithBorrow(_, _, _)
SubWithBorrow(a, b, c) ==
  IF a = <<>>
  THEN <<>>
  ELSE LET y == IF b = <<>> THEN 0 ELSE Head(b)
           d == Head(a) - y - c
       IN <<IF d < 0 THEN d + Base ELSE d>> \o
          SubWithBorrow(Tail(a), IF b = <<>> THEN b ELSE Tail(b),
                        IF d < 0 THEN 1 ELSE 0)

NatSub(a, b) == TrimTop(SubWithBorrow(a, b, 0))

RECURSIVE LessFromTop(_, _, _)
LessFromTop(a, b, k) ==
  IF k = 0 THEN FALSE
  ELSE IF a[k] # b[k] THEN a[k] < b[k]
  ELSE LessFromTop(a, b, k - 1)

NatLess(a, b) ==
  IF Len(a) # Len(b) THEN Len(a) < Len(b) ELSE LessFromTop(a, b, Len(a))

\* a * d for one digit d
RECURSIVE MulDigitCarry(_, _, _)
MulDigitCarry(a, d, c) ==
  IF a = <<>>
  THEN IF c = 0 THEN <<>> ELSE <<c>>
  ELSE LET p == Head(a) * d + c
       IN <<p % Base>> \o MulDigitCarry(Tail(a), d, p \div Base)

NatMulDigit(a, d) == IF d = 0 THEN <<>> ELSE MulDigitCarry(a, d, 0)

RECURSIVE NatMul(_, _)
NatMul(a, b) ==
  IF b = <<>>
  THEN <<>>
  ELSE LET rest == NatMul(a, Tail(b))
       IN NatAdd(NatMulDigit(a, Head(b)),
                 IF rest = <<>> THEN rest ELSE <<0>> \o rest)

\* quotient and remainder of a by d, for 0 < d < Base
RECURSIVE DivSmallFrom(_, _, _, _)
DivSmallFrom(a, d, k, r) ==
  IF k = 0
  THEN [q |-> <<>>, r |-> r]
  ELSE LET cur == r * Base + a[k]
           rest == DivSmallFrom(a, d, k - 1, cur % d)
       IN [q |-> Append(rest.q, cur \div d), r |-> rest.r]

NatDivSmall(a, d) ==
  LET qr == DivSmallFrom(a, d, Len(a), 0)
  IN [q |-> TrimTop(qr.q), r |-> qr.r]

RECURSIVE DigitLength(_)
DigitLength(n) == IF n = 0 THEN 0 ELSE 1 + DigitLength(n \div 2)

\* binary digits per digit of base Base
LimbBits == DigitLength(Base) - 1

BitLength(a) ==
  IF a = <<>> THEN 0 ELSE LimbBits * (Len(a) - 1) + DigitLength(a[Len(a)])

\* a * 2^k
ShiftLeft(a, k) ==
  IF a = <<>>
  THEN a
  ELSE [j \in 1..(k \div LimbBits) |-> 0] \o NatMulDigit(a, Pow2(k % LimbBits))

\* a \div 2^k
ShiftRight(a, k) ==
  LET h == SubSeq(a, (k \div LimbBits) + 1, Len(a))
      p == Pow2(k % LimbBits)
  IN TrimTop([j \in 1..Len(h) |->
                (h[j] \div p) +
                (IF j < Len(h) THEN (h[j + 1] % p) * (Base \div p) ELSE 0)])

\* binary digit i of a, counted from 0
BitAt(a, i) ==
  IF (i \div LimbBits) + 1 > Len(a)
  THEN 0
  ELSE (a[(i \div LimbBits) + 1] \div Pow2(i % LimbBits)) % 2

\* some binary digit of a below digit i is 1
AnyBitBelow(a, i) ==
  \/ \E j \in 1..(i \div LimbBits) : j <= Len(a) /\ a[j] # 0
  \/ /\ (i \div LimbBits) + 1 <= Len(a)
     /\ a[(i \div LimbBits) + 1] % Pow2(i % LimbBits) # 0

FZero == [s |-> 1, m |-> <<>>, e |-> 0]

\* Op(x) and Op(x, y) with the arguments evaluated once, before Op is
\* applied to them
Strict1(Op(_), x) == CHOOSE r \in {Op(v) : v \in {x}} : TRUE
Strict2(Op(_, _), x, y) ==
  CHOOSE r \in {Op(v[1], v[2]) : v \in {<<x, y>>}} : TRUE

\* the number nearest to sign * n * 2^e, ties to the even mantissa
NearestTo(sign, n, e) ==
  IF n = <<>>
  THEN FZero
  ELSE LET len == BitLength(n)
           k == len - Precision
       IN IF k <= 0
          THEN [s |-> sign, m |-> ShiftLeft(n, 0 - k), e |-> e + k]
          ELSE LET q == ShiftRight(n, k)
                   up == /\ BitAt(n, k - 1) = 1
                         /\ (AnyBitBelow(n, k - 1) \/ q[1] % 2 = 1)
                   r == IF up THEN NatAdd(q, <<1>>) ELSE q
               IN IF BitLength(r) > Precision
                  THEN [s |-> sign, m |-> ShiftRight(r, 1), e |-> e + k + 1]
                  ELSE [s |-> sign, m |-> r, e |-> e + k]

Nearest(sign, n, e) ==
  LET Rounded(v, w) == NearestTo(sign, v, w) IN Strict2(Rounded, n, e)

FNeg(x) == IF x.m = <<>> THEN x ELSE [x EXCEPT !.s = 0 - x.s]

\* x + y
Sum(x, y) ==
  IF x.m = <<>> THEN y
  ELSE IF y.m = <<>> THEN x
  ELSE LET e0 == IF x.e < y.e THEN x.e ELSE y.e
           a == ShiftLeft(x.m, x.e - e0)
           b == ShiftLeft(y.m, y.e - e0)
       IN IF x.s = y.s THEN Nearest(x.s, NatAdd(a, b), e0)
          ELSE IF NatLess(a, b) THEN Nearest(y.s, NatSub(b, a), e0)
          ELSE Nearest(x.s, NatSub(a, b), e0)

FAdd(x, y) == Strict2(Sum, x, y)

\* x - y
FSub(x, y) == FAdd(x, FNeg(y))

\* x * y
Product(x, y) == Nearest(x.s * y.s, NatMul(x.m, y.m), x.e + y.e)

FMul(x, y) == Strict2(Product, x, y)

\* x <= y
FLe(x, y) == FSub(y, x).s = 1

\* n / d for naturals n and 0 < d < Base; this is also the value of a
\* decimal literal, and of parseFloat of a decimal text, with that quotient
FRatio(n, d) ==
  LET k == Precision + 2 + DigitLength(d)
      qr == NatDivSmall(ShiftLeft(NatOf(n), k), d)
  IN IF qr.r = 0
     THEN Nearest(1, qr.q, 0 - k)
     ELSE Nearest(1, NatAdd(ShiftLeft(qr.q, 1), <<1>>), 0 - (k + 1))

FOne == FRatio(1, 1)
Larger(x, y) == IF FLe(x, y) THEN y ELSE x
Smaller(x, y) == IF FLe(x, y) THEN x ELSE y
FMax(x, y) == Strict2(Larger, x, y)
FMin(x, y) == Strict2(Smaller, x, y)

\* The arithmetic of the signal code is written down as the code has it,
\* as a term: a literal or quotient of two naturals, a Math.random() call,
\* or an operation on two terms. Calc gives the number the term evaluates
\* to, every operation rounded to the nearest double.
Num(n, d) == [op |-> "num", n |-> n, d |-> d]
Random(draw) == [op |-> "random", draw |-> draw]
Plus(l, r) == [op |-> "+", l |-> l, r |-> r]
Minus(l, r) == [op |-> "-", l |-> l, r |-> r]
Multiply(l, r) == [op |-> "*", l |-> l, r |-> r]
MathMax(l, r) == [op |-> "max", l |-> l, r |-> r]
MathMin(l, r) == [op |-> "min", l |-> l, r |-> r]

\* a decimal literal with two places
Hundredths(h) == Num(h, 100)

\* values Math.random() can return: 0, 1/2 and the largest number below 1
RandomDraws == {"zero", "half", "top"}
RandomValue(draw) ==
  CASE draw = "zero" -> FZero
    [] draw = "half" -> FRatio(1, 2)
    [] draw = "top" -> Nearest(1, NatSub(ShiftLeft(<<1>>, Precision), <<1>>),
                               0 - Precision)

Operate(op, x, y) ==
  CASE op = "+" -> FAdd(x, y)
    [] op = "-" -> FSub(x, y)
    [] op = "*" -> FMul(x, y)
    [] op = "max" -> FMax(x, y)
    [] op = "min" -> FMin(x, y)

RECURSIVE Calc(_)
Calc(term) ==
  CASE term.op = "num" -> FRatio(term.n, term.d)
    [] term.op = "random" -> RandomValue(term.draw)
    [] OTHER -> LET Applied(x, y) == Operate(term.op, x, y)
                IN Strict2(Applied, Calc(term.l), Calc(term.r))

\* ========================================================================
\* Session state (config.js): createSession, getNextValues, advanceCategory,
\* getSessionProgress, isSessionComplete
\* ========================================================================
Categories == {"intensity", "delay", "reward"}

\* isSessionComplete was not called yet
NotCalled == 0 - 1

\* settings.patternSwitch: handleSettingsChange keeps both at 1 or more
MinInstances == 1
MaxInstances == 2
\* getNextValues calls followed
MaxSteps == 2
\* clock readings followed, and session durations, in clock units
MaxClock == 2
MaxDuration == 1

\* keys of PATTERNS that appear in the settings below, and 'random'
PatternNames == {"constant", "climb", "surge", "wave", "descend", "random"}

\* the pattern lists of the settings: checked boxes, so no name twice
IntensityPatterns == {{}, {"climb", "surge"}, {"climb", "surge", "wave"}}
DelayPatterns == {{"random"}}
RewardPatterns == {{"descend", "surge"}}

\* the natural number a stands for
RECURSIVE NatValue(_)
NatValue(a) == IF a = <<>> THEN 0 ELSE Head(a) + Base * NatValue(Tail(a))

\* Math.floor(x)
MathFloor(x) ==
  IF x.e >= 0
  THEN x.s * NatValue(ShiftLeft(x.m, x.e))
  ELSE LET whole == NatValue(ShiftRight(x.m, 0 - x.e))
       IN IF x.s = 1 \/ ~AnyBitBelow(x.m, 0 - x.e)
          THEN x.s * whole
          ELSE 0 - (whole + 1)

\* randomInRange(min, max), one value for each Math.random() followed:
\* Math.floor(min + Math.random() * (max - min + 1))
RandomInRange(min, max) ==
  {MathFloor(Calc(Plus(Num(min, 1),
                       Multiply(Random(draw), Num(max - min + 1, 1))))) :
     draw \in RandomDraws}

\* randomInRange(switchSettings.minInstances, switchSettings.maxInstances)
InstanceDraws == RandomInRange(MinInstances, MaxInstances)

\* patterns.length > 0 ? patterns : ['constant']
SelectedPatterns(patterns) == IF patterns = {} THEN {"constant"} ELSE patterns

\* what createCategoryState(patterns, switchSettings) can return
CategoryStates(patterns) ==
  {[patterns |-> SelectedPatterns(patterns), currentPattern |-> p,
    index |-> 0, instancesRemaining |-> n] :
     p \in SelectedPatterns(patterns),
     n \in InstanceDraws}

\* catState.instancesRemaining <= 0 && catState.patterns.length > 1
ShouldSwitch_Early(instancesRemaining, count) ==
  instancesRemaining <= 1 /\ count > 1

ShouldSwitch(instancesRemaining, count) ==
  instancesRemaining <= 0 /\ count > 1

\* the array pickRandom is applied to when the pattern is switched
SwitchCandidates(cat) ==
  LET otherPatterns == cat.patterns \ {cat.currentPattern}
  IN IF otherPatterns # {} THEN otherPatterns ELSE cat.patterns

\* the category after index++ and instancesRemaining--
Stepped(cat) ==
  [cat EXCEPT !.index = cat.index + 1,
              !.instancesRemaining = cat.instancesRemaining - 1]

\* advanceCategory(catState, switchSettings) with the outcomes pick and fresh
\* of pickRandom and randomInRange
AdvanceCategory(cat, pick, fresh) ==
  IF ShouldSwitch(Stepped(cat).instancesRemaining, Cardinality(cat.patterns))
  THEN [Stepped(cat) EXCEPT !.currentPattern = pick, !.index = 0,
                            !.instancesRemaining = fresh]
  ELSE Stepped(cat)

\* getSessionProgress(session) at clock reading now, as a numerator over
\* session.duration:  Math.min(1, Math.max(0, elapsed / session.duration))
GetSessionProgress(now) ==
  LET elapsed == now - sessStart
      atLeastZero == IF elapsed < 0 THEN 0 ELSE elapsed
  IN IF atLeastZero > sessDuration THEN sessDuration ELSE atLeastZero

\* getSessionProgress(session) >= 1
ReachedOne_Never(progress) == progress > sessDuration

ReachedOne(progress) == progress >= sessDuration

\* isSessionComplete(session) at clock reading now
SessionCompleteAt(now) == ReachedOne(GetSessionProgress(now))

\* history of one category: the count instancesRemaining was last set to,
\* the pattern current then, the advances since, and the last switch
NoteAdvance(obs, before, after) ==
  IF ShouldSwitch(Stepped(before).instancesRemaining,
                  Cardinality(before.patterns))
  THEN [setTo |-> after.instancesRemaining,
        setPattern |-> after.currentPattern,
        advances |-> 0,
        switch |-> [happened |-> TRUE, from |-> before.currentPattern,
                    to |-> after.currentPattern,
                    after |-> obs.advances + 1, of |-> obs.setTo,
                    index |-> after.index]]
  ELSE [obs EXCEPT !.advances = obs.advances + 1]

\* pickRandom and randomInRange are not called by an advance that does not
\* switch
NoDraw == [pick |-> "none", fresh |-> 0]

\* what pickRandom and randomInRange can return in one advanceCategory
DrawOutcomes(cat) ==
  IF ShouldSwitch(Stepped(cat).instancesRemaining, Cardinality(cat.patterns))
  THEN {[pick |-> p, fresh |-> n] :
          p \in SwitchCandidates(cat),
          n \in InstanceDraws}
  ELSE {NoDraw}

\* the same for the three advances of one getNextValues
SessionDraws ==
  {[intensity |-> i, delay |-> d, reward |-> r] :
     i \in DrawOutcomes(catState["intensity"]),
     d \in DrawOutcomes(catState["delay"]),
     r \in DrawOutcomes(catState["reward"])}

\* getNextValues(settings, session): the three categories are advanced and
\* the step counted
GetNextValues(draw) ==
  /\ sessStep < MaxSteps
  /\ catState' = [c \in Categories |->
                    AdvanceCategory(catState[c], draw[c].pick,
                                    draw[c].fresh)]
  /\ catObs' = [c \in Categories |->
                  NoteAdvance(catObs[c], catState[c], catState'[c])]
  /\ sessStep' = sessStep + 1
  /\ UNCHANGED <<sessStart, sessDuration, clock, completeAt, completeResult,
                 completeBefore>>
  /\ UNCHANGED <<gateVars, gateObs, handleVars, cyVars, handleObs,
                 sessionVars, connectVars, buildVars, coyoteObs, detectVars,
                 arcVars, callVars, discoverVars>>

\* isSessionComplete(session) is called
IsSessionCompleteCall ==
  /\ completeAt' = clock
  /\ completeResult' = SessionCompleteAt(clock)
  /\ completeBefore' = (\/ completeBefore
                        \/ completeAt # NotCalled /\ completeResult)
  /\ UNCHANGED <<catState, catObs, sessStep, sessStart, sessDuration, clock>>
  /\ UNCHANGED <<gateVars, gateObs, handleVars, cyVars, handleObs,
                 sessionVars, connectVars, buildVars, coyoteObs, detectVars,
                 arcVars, callVars, discoverVars>>

\* time passes
ClockTick ==
  /\ clock < MaxClock
  /\ clock' = clock + 1
  /\ UNCHANGED <<catState, catObs, sessStep, sessStart, sessDuration,
                 completeAt, completeResult, completeBefore>>
  /\ UNCHANGED <<gateVars, gateObs, handleVars, cyVars, handleObs,
                 sessionVars, connectVars, buildVars, coyoteObs, detectVars,
                 arcVars, callVars, discoverVars>>

\* the history of a category just created
FreshObs(cat) ==
  [setTo |-> cat.instancesRemaining, setPattern |-> cat.currentPattern,
   advances |-> 0,
   switch |-> [happened |-> FALSE, from |-> cat.currentPattern,
               to |-> cat.currentPattern, after |-> 0, of |-> 0,
               index |-> 0]]

\* createSession(settings) with the given pattern lists and duration
CreateSession(intensity, delay, reward, duration) ==
  /\ catState \in [Categories -> UNION {CategoryStates(intensity),
                                        CategoryStates(delay),
                                        CategoryStates(reward)}]
  /\ catState["intensity"] \in CategoryStates(intensity)
  /\ catState["delay"] \in CategoryStates(delay)
  /\ catState["reward"] \in CategoryStates(reward)
  /\ catObs = [c \in Categories |-> FreshObs(catState[c])]
  /\ sessStep = 0
  /\ sessStart = clock
  /\ sessDuration = duration
  /\ completeAt = NotCalled
  /\ completeResult = FALSE
  /\ completeBefore = FALSE

\* no session followed: one category state each, nothing called
InitValues ==
  /\ clock = 0
  /\ catState = [c \in Categories |->
                   [patterns |-> {"constant"}, currentPattern |-> "constant",
                    index |-> 0, instancesRemaining |-> MinInstances]]
  /\ catObs = [c \in Categories |-> FreshObs(catState[c])]
  /\ sessStep = 0
  /\ sessStart = 0
  /\ sessDuration = 1
  /\ completeAt = NotCalled
  /\ completeResult = FALSE
  /\ completeBefore = FALSE


\* ========================================================================
\* The values getNextValues returns (config.js). Each of the three values
\* is computed from the signal's settings, the session progress and the
\* signal's category state (currentPattern, index) as it stands before the
\* advance; the category state is followed in the section above and is an
\* argument here
\* ========================================================================
\* number of ticks of a pattern that are followed
MaxIndex == 1
\* the session lasts this many clock units
ProgressSteps == 3

\* PATTERNS, in hundredths
PATTERNS ==
  [constant |-> <<100>>,
   climb |-> <<0, 20, 40, 60, 80, 100>>,
   descend |-> <<100, 80, 60, 40, 20, 0>>,
   pulse |-> <<50, 80, 50, 80, 50, 100>>,
   tease |-> <<30, 60, 30, 70, 30, 80, 30, 100>>,
   surge |-> <<40, 40, 60, 60, 80, 80, 100, 100>>,
   wave |-> <<30, 50, 80, 100, 80, 50, 30>>,
   heartbeat |-> <<20, 100, 40, 80, 20>>,
   staircase |-> <<25, 25, 50, 50, 75, 75, 100, 100>>]


\* SESSION_ARCS[arcName](t), an unknown name being taken as constant
FloatArc(name, t) ==
  CASE name = "open_up" -> [min |-> Num(0, 1), max |-> t]
    [] name = "close_down" -> [min |-> Num(0, 1), max |-> Minus(Num(1, 1), t)]
    [] name = "open_down" -> [min |-> Minus(Num(1, 1), t), max |-> Num(1, 1)]
    [] name = "close_up" -> [min |-> t, max |-> Num(1, 1)]
    [] name = "slide_up_wide" ->
         [min |-> Multiply(t, Hundredths(25)),
          max |-> Plus(Hundredths(75), Multiply(t, Hundredths(25)))]
    [] name = "slide_up" ->
         [min |-> Multiply(t, Hundredths(50)),
          max |-> Plus(Hundredths(50), Multiply(t, Hundredths(50)))]
    [] name = "slide_up_narrow" ->
         [min |-> Multiply(t, Hundredths(75)),
          max |-> Plus(Hundredths(25), Multiply(t, Hundredths(75)))]
    [] name = "slide_down_wide" ->
         [min |-> Minus(Hundredths(25), Multiply(t, Hundredths(25))),
          max |-> Minus(Num(1, 1), Multiply(t, Hundredths(25)))]
    [] name = "slide_down" ->
         [min |-> Minus(Hundredths(50), Multiply(t, Hundredths(50))),
          max |-> Minus(Num(1, 1), Multiply(t, Hundredths(50)))]
    [] name = "slide_down_narrow" ->
         [min |-> Minus(Hundredths(75), Multiply(t, Hundredths(75))),
          max |-> Minus(Num(1, 1), Multiply(t, Hundredths(75)))]
    [] name = "focus_high" ->
         LET width == Minus(Num(1, 1), Multiply(t, Hundredths(80)))
             half == Multiply(width, Hundredths(50))
         IN [min |-> MathMax(Num(0, 1), Minus(t, half)),
             max |-> MathMin(Num(1, 1), Plus(t, half))]
    [] name = "focus_low" ->
         LET width == Minus(Num(1, 1), Multiply(t, Hundredths(80)))
             half == Multiply(width, Hundredths(50))
             center == Minus(Num(1, 1), t)
         IN [min |-> MathMax(Num(0, 1), Minus(center, half)),
             max |-> MathMin(Num(1, 1), Plus(center, half))]
    [] OTHER -> [min |-> Num(0, 1), max |-> Num(1, 1)]

\* getSessionProgress(session) when elapsed clock units of a session of
\* ProgressSteps units have passed
FloatProgress(elapsed) ==
  MathMin(Num(1, 1), MathMax(Num(0, 1), Num(elapsed, ProgressSteps)))

\* applySessionArc(arcName, min, max, sessionProgress), name being arcName
ApplySessionArc(name, min, max, sessionProgress) ==
  LET normalized == FloatArc(name, sessionProgress)
      range == Minus(max, min)
  IN [min |-> Plus(min, Multiply(range, normalized.min)),
      max |-> Plus(min, Multiply(range, normalized.max))]

\* min + normalized * (max - min), the last line of getPatternValue
Interpolate(min, normalized, max) ==
  Plus(min, Multiply(normalized, Minus(max, min)))

\* getPatternValue(patternName, index, min, max); random is what
\* Math.random() returns when it is called
GetPatternValue(patternName, index, min, max, random) ==
  IF patternName = "random"
  THEN Plus(min, Multiply(Random(random), Minus(max, min)))
  ELSE LET pattern == IF patternName \in DOMAIN PATTERNS
                      THEN PATTERNS[patternName]
                      ELSE PATTERNS.constant
           normalized == Hundredths(pattern[(index % Len(pattern)) + 1])
       IN Interpolate(min, normalized, max)

\* the configured bounds of a signal as getNextValues passes them on:
\* settings.intensity.min as it is, settings.delay.min * 1000 and
\* settings.reward.min * 1000; h is the setting in hundredths
ConfiguredBound(signal, h) ==
  IF signal = "intensity"
  THEN Hundredths(h)
  ELSE Multiply(Hundredths(h), Num(1000, 1))

\* the value getNextValues returns for one signal
NextValue(a) ==
  LET range == ApplySessionArc(a.arc,
                               ConfiguredBound(a.signal, a.min),
                               ConfiguredBound(a.signal, a.max),
                               FloatProgress(a.elapsed))
  IN Strict1(Calc, GetPatternValue(a.pattern, a.index, range.min,
                                   range.max, a.random))

\* settings followed, in hundredths: 3, 29 and 70 out of 1..100
SettingHundredths == {3, 29, 70}
ValuePatterns == {"constant", "wave", "random"}

\* the index matters for a listed pattern only, the draw for random only
ValueArgs ==
  {a \in [signal : Categories, arc : ArcNames, pattern : ValuePatterns,
          index : 0..MaxIndex, elapsed : 0..(ProgressSteps + 1),
          random : RandomDraws, min : SettingHundredths,
          max : SettingHundredths] :
     /\ a.pattern = "random" => a.index = 0
     /\ a.pattern # "random" => a.random = "zero"}

\* getNextValues(settings, session) is called; the value of one signal is
\* followed
GetNextValuesCall ==
  /\ callPc = "input"
  /\ callFn = "getNextValues"
  /\ callOut' = NextValue(callArgs)
  /\ callPc' = "done"
  /\ UNCHANGED <<callFn, callArgs>>
  /\ UNCHANGED <<gateVars, gateObs, handleVars, cyVars, handleObs,
                 sessionVars, connectVars, buildVars, coyoteObs, detectVars,
                 arcVars, valueVars, discoverVars>>

SessionProtocols == {"lovense", "svakom", "coyote", "coyote-v2"}

InitSessionSpec ==
  /\ InitDiscover
  /\ InitCoyoteObs
  /\ InitConnect
  /\ InitDetect
  /\ InitArc
  /\ InitValues
  /\ InitCall
  /\ InitBuild
  /\ InitGate
  /\ InitSession
  /\ clickerEnabled \in BOOLEAN
  /\ micConnected = FALSE
  /\ \E p \in SessionProtocols : InitHandle(p)
  /\ hasWaveA /\ hasWaveB

NextSession ==
  \/ \E l \in LoopIds : BeginSession(l)
  \/ StopSequence
  \/ SessionTimeUp
  \/ \E l \in LoopIds : ClickTimer(l)
  \/ \E l \in LoopIds : RewardTimer(l)
  \/ \E l \in LoopIds : SettleTimer(l)
  \/ \E l \in LoopIds : DelayTimer(l)
  \/ \E t \in timers : SessionTick(t)
  \/ \E w \in charWrites : \E ok \in BOOLEAN : SessionCharWriteDone(w, ok)
  \/ \E c \in v2Calls : \E o \in WriteOutcomes : SessionV2SendWriteDone(c, o)
  \/ \E c \in v2Calls : SessionV2StopPoll(c)
  \/ \E c \in v2Calls : \E o \in WriteOutcomes : SessionV2StopWriteDone(c, o)
  \/ SessionV2Disconnected

SpecSession == InitSessionSpec /\ [][NextSession]_vars

\* the same page with the microphone connected: runSequence runs in
\* call-and-response mode
PromptProtocols == {"lovense"}

InitPromptSpec ==
  /\ InitDiscover
  /\ InitCoyoteObs
  /\ InitConnect
  /\ InitDetect
  /\ InitArc
  /\ InitValues
  /\ InitCall
  /\ InitBuild
  /\ InitGate
  /\ InitSession
  /\ clickerEnabled \in BOOLEAN
  /\ micConnected = TRUE
  /\ \E p \in PromptProtocols : InitHandle(p)
  /\ hasWaveA /\ hasWaveB

\* the handle of PromptProtocols has no keepalive timer and no command
\* queue: the steps of the page, of the recogniser and of the write
\* characteristic are the ones that can happen
NextPrompt ==
  \/ \E l \in LoopIds : BeginSession(l)
  \/ StopSequence
  \/ SessionTimeUp
  \/ \E l \in LoopIds : ClickTimer(l)
  \/ \E l \in LoopIds : RewardTimer(l)
  \/ \E l \in LoopIds : SettleTimer(l)
  \/ \E l \in LoopIds : DelayTimer(l)
  \/ \E w \in charWrites : \E ok \in BOOLEAN : SessionCharWriteDone(w, ok)
  \/ \E l \in LoopIds : \E o \in ListenOutcomes : ListenDone(l, o)
  \/ \E l \in LoopIds : RetryTimer(l)

SpecPrompt == InitPromptSpec /\ [][NextPrompt]_vars

\* ------------------------------------------------------------------------
\* The page in either mode, with every awaited operation settling: the wait
\* a loop is suspended in ends (its timer fires, listen() settles, the
\* write it awaits settles), every V2 write in flight settles and the poll
\* of a waiting V2 stopCommand runs. The Start and Stop buttons and the
\* clock are under no obligation. One session is followed, from the first
\* press of Start.
\* ------------------------------------------------------------------------
InitPageSpec == InitSessionSpec \/ InitPromptSpec

FirstSession(l) == nSessions = 0 /\ BeginSession(l)

\* the operation loop l awaits settles
LoopProceeds(l) ==
  \/ ClickTimer(l)
  \/ RewardTimer(l)
  \/ SettleTimer(l)
  \/ DelayTimer(l)
  \/ RetryTimer(l)
  \/ \E o \in ListenOutcomes : ListenDone(l, o)
  \/ \E w \in charWrites : \E ok \in BOOLEAN :
       w.who = l /\ SessionCharWriteDone(w, ok)

\* a write issued by the Stop button or by a keepalive tick settles
OtherWriteSettles ==
  \E w \in charWrites : \E ok \in BOOLEAN :
    w.who \notin LoopIds /\ SessionCharWriteDone(w, ok)

V2WriteSettles ==
  \E c \in v2Calls : \E o \in WriteOutcomes :
    SessionV2SendWriteDone(c, o) \/ SessionV2StopWriteDone(c, o)

V2PollRuns == \E c \in v2Calls : SessionV2StopPoll(c)

NextPage ==
  \/ \E l \in LoopIds : FirstSession(l)
  \/ StopSequence
  \/ SessionTimeUp
  \/ \E l \in LoopIds : LoopProceeds(l)
  \/ OtherWriteSettles
  \/ \E t \in timers : SessionTick(t)
  \/ V2WriteSettles
  \/ V2PollRuns
  \/ SessionV2Disconnected

SpecPageFair ==
  /\ InitPageSpec
  /\ [][NextPage]_vars
  /\ \A l \in LoopIds : WF_vars(LoopProceeds(l))
  /\ WF_vars(V2WriteSettles)
  /\ WF_vars(V2PollRuns)

\* ------------------------------------------------------------------------
\* The handle driven directly: any sequence of calls, ticks and completions
\* ------------------------------------------------------------------------
Send(i) == UNCHANGED <<sessionVars, setupVars>> /\ HandleSend(i, 0)
Activate(i) == UNCHANGED <<sessionVars, setupVars>> /\ HandleActivate(i, 0)
Stop == UNCHANGED <<sessionVars, setupVars>> /\ HandleStop(0)
Disconnect == UNCHANGED <<sessionVars, setupVars>> /\ HandleDisconnect
KeepaliveTick(t) == HandleTick(t) /\ UNCHANGED <<sessionVars, setupVars>>
CharWriteDone(w, ok) == HandleCharWriteDone(w, ok) /\ UNCHANGED <<sessionVars, setupVars>>
V2SendWriteDone(c, o) == HandleV2SendWriteDone(c, o) /\ UNCHANGED <<sessionVars, setupVars>>
V2StopPoll(c) == HandleV2StopPoll(c) /\ UNCHANGED <<sessionVars, setupVars>>
V2StopWriteDone(c, o) == HandleV2StopWriteDone(c, o) /\ UNCHANGED <<sessionVars, setupVars>>
V2Disconnected == HandleV2Disconnected /\ UNCHANGED <<sessionVars, setupVars>>

InitHandleSpec ==
  /\ InitDiscover
  /\ InitCoyoteObs
  /\ InitConnect
  /\ InitDetect
  /\ InitArc
  /\ InitValues
  /\ InitCall
  /\ InitBuild
  /\ InitGate
  /\ InitSession
  /\ clickerEnabled = FALSE
  /\ micConnected = FALSE
  /\ \E p \in ProtocolIds : InitHandle(p)
  /\ hasWaveA /\ hasWaveB

NextHandle ==
  \/ \E i \in EndIntensities : Send(i)
  \/ \E i \in EndIntensities : Activate(i)
  \/ Stop
  \/ Disconnect
  \/ \E t \in timers : KeepaliveTick(t)
  \/ \E w \in charWrites : \E ok \in BOOLEAN : CharWriteDone(w, ok)
  \/ \E c \in v2Calls : \E o \in WriteOutcomes : V2SendWriteDone(c, o)
  \/ \E c \in v2Calls : V2StopPoll(c)
  \/ \E c \in v2Calls : \E o \in WriteOutcomes : V2StopWriteDone(c, o)
  \/ V2Disconnected

SpecHandle == InitHandleSpec /\ [][NextHandle]_vars

\* ------------------------------------------------------------------------
\* The gate driven directly: any caller, any interleaving
\* ------------------------------------------------------------------------
SendCommand(i) ==
  /\ UNCHANGED <<handleVars, cyVars, handleObs, sessionVars, setupVars>>
  /\ nReq < MaxRequests
  /\ nReq' = nReq + 1
  /\ lastReqLevel' = V2Level(i)
  /\ GateSendCommand(nReq + 1, i, DirectCall)

StopCommand ==
  /\ UNCHANGED <<handleVars, cyVars, handleObs, sessionVars, setupVars>>
  /\ nReq < MaxRequests
  /\ nReq' = nReq + 1
  /\ lastReqLevel' = 0
  /\ GateStopCommand(nReq + 1, DirectCall)

SendWriteDone(c, outcome) ==
  /\ UNCHANGED <<handleVars, cyVars, handleObs, sessionVars, setupVars>>
  /\ GateSendWriteDone(c, outcome)
  /\ UNCHANGED <<nReq, lastReqLevel>>

StopPoll(c) ==
  /\ UNCHANGED <<handleVars, cyVars, handleObs, sessionVars, setupVars>>
  /\ GateStopPoll(c)
  /\ UNCHANGED <<nReq, lastReqLevel>>

StopWriteDone(c, outcome) ==
  /\ UNCHANGED <<handleVars, cyVars, handleObs, sessionVars, setupVars>>
  /\ GateStopWriteDone(c, outcome)
  /\ UNCHANGED <<nReq, lastReqLevel>>

Disconnected ==
  /\ UNCHANGED <<handleVars, cyVars, handleObs, sessionVars, setupVars>>
  /\ GateDisconnected
  /\ UNCHANGED <<nReq, lastReqLevel>>

InitGateSpec ==
  /\ InitDiscover
  /\ InitCoyoteObs
  /\ InitConnect
  /\ InitDetect
  /\ InitArc
  /\ InitValues
  /\ InitCall
  /\ InitBuild
  /\ InitGate
  /\ InitHandle("coyote-v2")
  /\ InitSession
  /\ clickerEnabled = FALSE
  /\ micConnected = FALSE

NextGate ==
  \/ \E i \in SendIntensities : SendCommand(i)
  \/ StopCommand
  \/ \E c \in v2Calls : \E o \in WriteOutcomes : SendWriteDone(c, o)
  \/ \E c \in v2Calls : StopPoll(c)
  \/ \E c \in v2Calls : \E o \in WriteOutcomes : StopWriteDone(c, o)
  \/ Disconnected

SpecGate == InitGateSpec /\ [][NextGate]_vars

\* ------------------------------------------------------------------------
\* The gate with callers that never run out of requests: a request takes an
\* id no call in progress holds, so requests can arrive for ever. Every
\* write that is in flight settles in the end; the 10 ms poll timer of a
\* waiting stopCommand is re-armed until it finds the lock free, and is
\* taken to find it free if the lock is free again and again.
\* ------------------------------------------------------------------------
\* gate calls that can be in progress at once, and requests that can
\* arrive while one write sequence is in flight
MaxInProgress == 3
MaxArrivals == 1

IdsInUse ==
  {c.id : c \in v2Calls} \cup (IF v2Pending.set THEN {v2Pending.id} ELSE {})

FreeIds == (1..MaxInProgress) \ IdsInUse

FreeId == CHOOSE id \in FreeIds : \A other \in FreeIds : id <= other

SendCommandAnew(i) ==
  /\ UNCHANGED <<handleVars, cyVars, handleObs, sessionVars, setupVars>>
  /\ FreeIds # {}
  /\ Len(arrivals) < MaxArrivals
  /\ UNCHANGED nReq
  /\ lastReqLevel' = V2Level(i)
  /\ GateSendCommand(FreeId, i, DirectCall)

StopCommandAnew ==
  /\ UNCHANGED <<handleVars, cyVars, handleObs, sessionVars, setupVars>>
  /\ FreeIds # {}
  /\ UNCHANGED nReq
  /\ lastReqLevel' = 0
  /\ GateStopCommand(FreeId, DirectCall)

\* the write in flight for the call with this id settles
WriteSettles(id) ==
  \E c \in v2Calls : \E o \in WriteOutcomes :
    /\ c.id = id
    /\ (SendWriteDone(c, o) \/ StopWriteDone(c, o))

\* the poll of the waiting stopCommand with this id finds the lock free
PollFindsLockFree(id) == \E c \in v2Calls : c.id = id /\ StopPoll(c)

NextGateAnew ==
  \/ \E i \in SendIntensities : SendCommandAnew(i)
  \/ StopCommandAnew
  \/ \E id \in 1..MaxInProgress : WriteSettles(id)
  \/ \E id \in 1..MaxInProgress : PollFindsLockFree(id)
  \/ Disconnected

SpecGateFair ==
  /\ InitGateSpec
  /\ [][NextGateAnew]_vars
  /\ \A id \in 1..MaxInProgress : WF_vars(WriteSettles(id))
  /\ \A id \in 1..MaxInProgress : SF_vars(PollFindsLockFree(id))

\* ------------------------------------------------------------------------
\* One connect() invocation with every outcome of the chooser, of the GATT
\* calls and of the protocol set-up
\* ------------------------------------------------------------------------
InitConnectSpec ==
  /\ InitDiscover
  /\ InitCoyoteObs
  /\ InitConnect
  /\ InitDetect
  /\ InitArc
  /\ InitValues
  /\ InitCall
  /\ InitBuild
  /\ InitGate
  /\ hasWaveA /\ hasWaveB
  /\ InitHandle("lovense")
  /\ InitSession
  /\ clickerEnabled = FALSE
  /\ micConnected = FALSE

NextConnect ==
  \/ ConnectCall
  \/ \E d \in ChooserOutcomes : ChooserDone(d)
  \/ \E ok \in BOOLEAN : GattConnectDone(ok)
  \/ StabilizeTimer
  \/ \E ok \in BOOLEAN : \E services \in ServiceLists :
       ServicesDone(ok, services)
  \/ BackoffTimer
  \/ \E o \in SetupOutcomes : SetupDone(o)
  \/ InitDone

SpecConnect == InitConnectSpec /\ [][NextConnect]_vars

\* ------------------------------------------------------------------------
\* buildCommand applied once to every protocol and intensity
\* ------------------------------------------------------------------------
InitBuildSpec ==
  /\ InitDiscover
  /\ InitConnect
  /\ InitDetect
  /\ InitArc
  /\ InitValues
  /\ InitCall
  /\ InitGate
  /\ hasWaveA /\ hasWaveB
  /\ \E p \in ProtocolIds : InitHandle(p)
  /\ InitSession
  /\ clickerEnabled = FALSE
  /\ micConnected = FALSE
  /\ InitCoyoteObs
  /\ bPc = "input"
  /\ bIntensity \in BuildIntensities
  /\ bCommand = NoCommand
  /\ bArg \in MotorArgs(protocol)
  /\ bStopPc = "input"
  /\ bStopCommand = NoCommand

NextBuild ==
  \/ BuildCommandCall
  \/ BuildStopCommandCall

SpecBuild == InitBuildSpec /\ [][NextBuild]_vars

\* ------------------------------------------------------------------------
\* Any sequence of calls on a fresh Coyote protocol object
\* ------------------------------------------------------------------------
InitCoyoteSpec ==
  /\ InitDiscover
  /\ InitCoyoteObs
  /\ InitConnect
  /\ InitDetect
  /\ InitArc
  /\ InitValues
  /\ InitCall
  /\ InitBuild
  /\ InitGate
  /\ hasWaveA /\ hasWaveB
  /\ \E p \in CoyoteProtocols : InitHandle(p)
  /\ InitSession
  /\ clickerEnabled = FALSE
  /\ micConnected = FALSE

NextCoyote ==
  \/ \E i \in CoyoteIntensities : \E m \in {0, 1} : CoyoteBuildCommand(i, m)
  \/ \E oA \in FullIntensities : \E oB \in FullIntensities :
       \E wA \in FullWaveforms : \E wB \in FullWaveforms :
         CoyoteBuildFullCommand(oA, oB, wA, wB)
  \/ CoyoteBuildStopCommand

SpecCoyote == InitCoyoteSpec /\ [][NextCoyote]_vars

\* ------------------------------------------------------------------------
\* detectProtocol applied once to every device name and list of services
\* ------------------------------------------------------------------------
InitDetectSpec ==
  /\ InitDiscover
  /\ InitCoyoteObs
  /\ InitConnect
  /\ InitBuild
  /\ InitGate
  /\ hasWaveA /\ hasWaveB
  /\ InitHandle("lovense")
  /\ InitSession
  /\ clickerEnabled = FALSE
  /\ micConnected = FALSE
  /\ InitArc
  /\ InitValues
  /\ InitCall
  /\ devName \in DeviceNames
  /\ devServices \in SUBSET ServiceUuids
  /\ detPc = "input"
  /\ detResult = NoProtocol

NextDetect == DetectProtocolCall

SpecDetect == InitDetectSpec /\ [][NextDetect]_vars

\* ------------------------------------------------------------------------
\* Every session arc applied once to every sampled progress value
\* ------------------------------------------------------------------------
InitArcSpec ==
  /\ InitDiscover
  /\ InitCoyoteObs
  /\ InitConnect
  /\ InitDetect
  /\ InitValues
  /\ InitCall
  /\ InitBuild
  /\ InitGate
  /\ hasWaveA /\ hasWaveB
  /\ InitHandle("lovense")
  /\ InitSession
  /\ clickerEnabled = FALSE
  /\ micConnected = FALSE
  /\ arcName \in ArcNames
  /\ arcT \in 0..ArcSteps
  /\ arcPc = "input"
  /\ arcRange = [min |-> 0, max |-> 0]

NextArc == SessionArcCall

SpecArc == InitArcSpec /\ [][NextArc]_vars

\* ------------------------------------------------------------------------
\* A session object from createSession on: getNextValues and
\* isSessionComplete calls while time passes
\* ------------------------------------------------------------------------
InitValuesSpec ==
  /\ InitDiscover
  /\ InitCoyoteObs
  /\ InitConnect
  /\ InitDetect
  /\ InitArc
  /\ InitCall
  /\ InitBuild
  /\ InitGate
  /\ hasWaveA /\ hasWaveB
  /\ InitHandle("lovense")
  /\ InitSession
  /\ clickerEnabled = FALSE
  /\ micConnected = FALSE
  /\ clock \in 0..1
  /\ \E intensity \in IntensityPatterns : \E delay \in DelayPatterns :
       \E reward \in RewardPatterns : \E duration \in 1..MaxDuration :
         CreateSession(intensity, delay, reward, duration)

NextValues ==
  \/ \E draw \in SessionDraws : GetNextValues(draw)
  \/ IsSessionCompleteCall
  \/ ClockTick

SpecValues == InitValuesSpec /\ [][NextValues]_vars

\* ------------------------------------------------------------------------
\* One call of a Coyote encoder on every argument followed
\* ------------------------------------------------------------------------
InitCodecSpec ==
  /\ InitDiscover
  /\ InitCoyoteObs
  /\ InitConnect
  /\ InitDetect
  /\ InitArc
  /\ InitValues
  /\ InitBuild
  /\ InitGate
  /\ hasWaveA /\ hasWaveB
  /\ InitHandle("coyote")
  /\ InitSession
  /\ clickerEnabled = FALSE
  /\ micConnected = FALSE
  /\ callPc = "input"
  /\ callOut = <<>>
  /\ \/ callFn = "encodeFrequency" /\ callArgs \in FrequencyArgs
     \/ callFn = "encodeV2Power" /\ callArgs \in PowerArgs
     \/ callFn = "buildB0Command" /\ callArgs \in B0Args
     \/ callFn = "encodeV2Wave" /\ callArgs \in WaveArgs

NextCodec ==
  \/ EncodeFrequencyCall
  \/ EncodeV2PowerCall
  \/ EncodeV2WaveCall
  \/ BuildB0CommandCall

SpecCodec == InitCodecSpec /\ [][NextCodec]_vars

\* ------------------------------------------------------------------------
\* One call of getNextValues on every argument followed
\* ------------------------------------------------------------------------
InitSignalSpec ==
  /\ InitDiscover
  /\ InitCoyoteObs
  /\ InitConnect
  /\ InitDetect
  /\ InitArc
  /\ InitValues
  /\ InitBuild
  /\ InitGate
  /\ hasWaveA /\ hasWaveB
  /\ InitHandle("lovense")
  /\ InitSession
  /\ clickerEnabled = FALSE
  /\ micConnected = FALSE
  /\ callPc = "input"
  /\ callOut = <<>>
  /\ callFn = "getNextValues"
  /\ callArgs \in ValueArgs

NextSignal == GetNextValuesCall

SpecSignal == InitSignalSpec /\ [][NextSignal]_vars

\* ------------------------------------------------------------------------
\* connect() from the end of its retry loop, on every service list followed,
\* with every outcome of the awaited GATT calls, and the writes of the
\* handle it returns
\* ------------------------------------------------------------------------
HandleOps == {"send", "keepalive", "stop"}

InitSetupSpec ==
  /\ InitCoyoteObs
  /\ InitConnect
  /\ InitDetect
  /\ InitArc
  /\ InitValues
  /\ InitCall
  /\ InitBuild
  /\ InitGate
  /\ hasWaveA /\ hasWaveB
  /\ InitHandle("lovense")
  /\ InitSession
  /\ clickerEnabled = FALSE
  /\ micConnected = FALSE
  /\ suPc = "input"
  /\ \/ /\ suDevice = "vibrator"
        /\ suServices \in ServiceListsOf(VibratorServices)
        /\ suProtocol \in VibratorProtocols
     \/ /\ suDevice = "coyote"
        /\ suServices \in ServiceListsOf(CoyoteServices)
        /\ suProtocol = NoProtocol
  /\ suVersion = "none"
  /\ targetService = NoService
  /\ suIndex = 0
  /\ scanned = {}
  /\ powerChar = NoChar
  /\ waveAChar = NoChar
  /\ waveBChar = NoChar
  /\ writeChar = NoChar
  /\ useWriteWithoutResponse = FALSE
  /\ initStep = 0
  /\ initResult = "none"
  /\ suWrites = {}
  /\ suError = "none"

NextSetup ==
  \/ BeginSetup
  \/ \E ok \in BOOLEAN : CharacteristicsDone(ok)
  \/ \E ok \in BOOLEAN : V3CharDone(ok)
  \/ \E ok \in BOOLEAN : V3ConfigWriteDone(ok)
  \/ \E ok \in BOOLEAN : ScanDone(ok)
  \/ \E ok \in BOOLEAN : InitWriteDone(ok)
  \/ InitReturn
  \/ \E op \in HandleOps : CommandWrite(op)

SpecSetup == InitSetupSpec /\ [][NextSetup]_vars

\* ------------------------------------------------------------------------
\* Claims about the gate
\* ------------------------------------------------------------------------
\* C1: on a V2 connection at most one BLE write is in flight at any time,
\* and the lock flag is held exactly while a write sequence is in progress
C1_AtMostOneWriteInFlight ==
  /\ Cardinality(WritesInFlight) <= 1
  /\ v2Sending <=> (WritesInFlight # {})

\* a stopCommand is waiting for the lock while a send sequence writes
C1_Witness ==
  /\ \E c \in v2Calls : c.kind = "send" /\ c.pc = "power"
  /\ \E c \in v2Calls : c.kind = "stop" /\ c.pc = "poll"
  /\ v2Pending.set

Last(s) == s[Len(s)]

C3_ConvergesToLatestRequest ==
  (v2Calls = {} /\ nReq > 0 /\ ~faults) =>
     /\ devicePower = lastReqLevel
     /\ ~v2Pending.set

\* ------------------------------------------------------------------------
\* Claims about the handle
\* ------------------------------------------------------------------------
\* C4: a keepalive tick that fires while the handle is active re-issues the
\* command of the most recent send() (its intensity, for a protocol with
\* sendCommand), and a tick that fires while it is inactive issues nothing
C4_TickReissuesLatestSend ==
  hEvent = "tick" =>
    IF active
    THEN /\ recentSend.set
         /\ tickIssued =
              IF HasSendCommand(protocol)
              THEN [kind |-> "intensity", i |-> recentSend.i, cmd |-> NoCommand]
              ELSE [kind |-> "cmd", i |-> 0, cmd |-> recentSend.cmd]
    ELSE tickIssued = NoIssue

\* a tick fired on a handle re-activated after a stop
C4_Witness ==
  /\ hEvent = "tick"
  /\ active
  /\ tickIssued.kind = "cmd"
  /\ lastCall = "activate"
  /\ prevCall = "stop"

\* C5: once stop() has been called and until the next activate(), no
\* keepalive timer is registered and the handle holds none
C5_NoTimerAfterStop ==
  sinceStop => (timers = {} /\ keepaliveTimer = NoTimer)

\* stop() after two activate() calls on a keepalive protocol
C5_Witness ==
  /\ sinceStop
  /\ nReq >= 3
  /\ lastCall = "stop"
  /\ prevCall = "activate"
  /\ prevSnap.timers # {}
  /\ timers = {}

\* C6: a stop() whose write failed completes without raising, with the
\* handle inactive and its timer cleared (unless activate() ran meanwhile)
C6_StopToleratesWriteFailure ==
  (hEvent = "stopDone" /\ doneInfo.writeFailed) =>
     /\ ~doneInfo.raised
     /\ sinceStop => (~active /\ timers = {} /\ keepaliveTimer = NoTimer)

\* C7, consecutive stops: a stop() that directly follows a stop() leaves the
\* handle as the first one left it (inactive, no timer, no last command,
\* last intensity 0); a stop() whose write succeeded raises nothing; and
\* after stopSequence the session is not running
C7_StopTwiceSameState ==
  /\ (lastCall = "stop" /\ prevCall = "stop") =>
        (lastSnap = prevSnap /\ lastSnap = NoSnap)
  /\ (hEvent = "stopDone" /\ ~doneInfo.writeFailed) => ~doneInfo.raised
  /\ (lastCall = "stop" /\ callCtx.ui) => ~callCtx.running

\* stopSequence was followed by the loop's own stop(), whose write succeeded
C7_TwoStopsWitness ==
  /\ lastCall = "stop"
  /\ prevCall = "stop"
  /\ ~callCtx.ui
  /\ hEvent = "stopDone"
  /\ ~doneInfo.writeFailed
  /\ doneInfo.who # 0
  /\ ~isRunning

\* C8: when a session loop has ended through its catch block and no loop
\* is left, the device has been stopped: a stop was issued after the last
\* activation, the handle is inactive and no keepalive timer is registered
C8_ExceptionExitStopsDevice ==
  ((\E l \in LoopIds : loops[l].pc = "done" /\ loops[l].exc)
    /\ (\A l \in LoopIds : loops[l].pc \in {"idle", "done"})) =>
     /\ ~active
     /\ timers = {}
     /\ keepaliveTimer = NoTimer
     /\ sinceStop

\* ------------------------------------------------------------------------
\* Claims about connect()
\* ------------------------------------------------------------------------
\* connect() got past the retry loop
PastRetryLoop ==
  \/ connPc \in {"setup", "init", "ready"}
  \/ connPc = "raised" /\ connRaisedBy = "setup"

\* C9 (as amended): connect() calls device.gatt.connect() at most 3 times,
\* one call per pass of the retry loop; a pass succeeds when the GATT
\* connect and the primary-service discovery that follows it both succeed;
\* connect() leaves the loop without raising after the first pass that
\* succeeds, and the loop raises only when three passes have failed
C9_ThreePassesThenRaise ==
  /\ gattCalls <= MaxAttempts
  /\ gattCalls = connAttempt
  /\ Len(connLog) <= MaxAttempts
  /\ \A k \in 1..(Len(connLog) - 1) : connLog[k] # "ok"
  /\ PastRetryLoop <=> (connLog # <<>> /\ Last(connLog) = "ok")
  /\ connPc = "services" => Len(connLog) = connAttempt - 1
  /\ (connPc = "raised" /\ connRaisedBy = "retry") <=>
       (Len(connLog) = MaxAttempts /\ \A k \in 1..MaxAttempts : connLog[k] # "ok")

\* the third pass succeeded after two failed ones and connect() went on
C9_Witness ==
  /\ connPc = "ready"
  /\ Len(connLog) = 3
  /\ connLog[1] = "connectFailed"
  /\ connLog[2] = "servicesFailed"
  /\ connLog[3] = "ok"
  /\ gattCalls = 3

\* C9 as stated: the retry loop raises only when all three GATT connection
\* attempts have failed
C9_Original ==
  (connPc = "raised" /\ connRaisedBy = "retry") =>
     /\ Len(connLog) = MaxAttempts
     /\ \A k \in 1..MaxAttempts : connLog[k] = "connectFailed"

\* ------------------------------------------------------------------------
\* Claims about the encoders
\* ------------------------------------------------------------------------
\* the number a run of decimal digit codes denotes
RECURSIVE DigitsValue(_)
DigitsValue(ds) ==
  IF ds = <<>> THEN 0
  ELSE 10 * DigitsValue(SubSeq(ds, 1, Len(ds) - 1)) + (Last(ds) - 48)

\* the level a device reads from a frame of protocol p (channel A, motor 0)
FrameLevel(p, cmd) ==
  CASE p = "lovense" ->
         LET body == SubSeq(cmd, Len(VibratePrefix) + 1, Len(cmd) - 1)
         IN IF body[1] = 45 THEN 0 - DigitsValue(Tail(body))
            ELSE DigitsValue(body)
    [] p = "satisfyer" -> cmd[1]
    [] p = "wevibe" -> cmd[4] % 16
    [] p = "lelo" -> cmd[2]
    [] p = "kiiroo" -> cmd[1]
    [] p = "svakom" -> cmd[6]
    [] p = "magicmotion" -> cmd[10]
    [] p = "mysteryvibe" -> cmd[1]
    [] p = "aneros" -> cmd[2]
    [] p = "coyote" -> cmd[3]
    [] p = "coyote-v2" -> (cmd[2] \div 8) + 32 * cmd[3]

\* C10: the level a built frame carries lies in 0..maxIntensity; it is 0
\* for an intensity below 0 and maxIntensity for an intensity above 1
C10_LevelClamped ==
  bPc = "built" =>
    LET level == FrameLevel(protocol, bCommand)
    IN /\ level \in 0..MaxIntensity(protocol)
       /\ bIntensity < 0 => level = 0
       /\ bIntensity > IntensityDen => level = MaxIntensity(protocol)

\* C11: for every stateless protocol and every motor argument,
\* buildStopCommand(arg) returns the bytes buildCommand(0, arg) returns
C11_StopEqualsBuildZero ==
  (/\ protocol \in StatelessProtocols
   /\ bPc = "built"
   /\ bStopPc = "built"
   /\ bIntensity = 0) => bStopCommand = bCommand

\* both frames were built for the second Aneros motor
C11_Witness ==
  /\ protocol = "aneros"
  /\ bArg = 1
  /\ bIntensity = 0
  /\ bPc = "built"
  /\ bStopPc = "built"
  /\ bStopCommand = <<242, 0>>

\* ------------------------------------------------------------------------
\* Claims about the Coyote channel state
\* ------------------------------------------------------------------------
\* C12: coyote.buildStopCommand() leaves both intensities 0 and both
\* waveforms at their default, and the frame of a buildCommand issued right
\* after it carries the new level on its channel, 0 on the other channel
\* and the default waveforms
C12_StopResetsChannelState ==
  protocol = "coyote" =>
    /\ cyOp = "stop" =>
         /\ cyIntensityA = 0
         /\ cyIntensityB = 0
         /\ cyWaveformA = NoWaveform
         /\ cyWaveformB = NoWaveform
    /\ (cyOp = "build" /\ cyPrevOp = "stop") =>
         cyFrame = BuildB0Command(0, 3, 3,
                     IF cyArgs.channel = 0 THEN cyArgs.level ELSE 0,
                     IF cyArgs.channel = 0 THEN 0 ELSE cyArgs.level,
                     DefaultWaveform, DefaultWaveform)

DefinitionMatches(k) ==
  \/ \E n \in 1..Len(PROTOCOLS[k].namePatterns) :
       PatternTest(PROTOCOLS[k].namePatterns[n], devName)
  \/ \E u \in 1..Len(PROTOCOLS[k].serviceUUIDs) : \E s \in devServices :
       ToLowerCase(PROTOCOLS[k].serviceUUIDs[u]) = ToLowerCase(s)

MatchingDefinitions == {k \in 1..Len(PROTOCOLS) : DefinitionMatches(k)}

\* C14: when some definition matches, detectProtocol returns the first
\* definition, in the order of the registry, that matches by name or by
\* service uuid (case-insensitively)
C14_FirstMatchInOrder ==
  (detPc = "done" /\ MatchingDefinitions # {}) =>
    \E k \in MatchingDefinitions :
      /\ \A j \in MatchingDefinitions : k <= j
      /\ detResult = PROTOCOLS[k].id

\* "LVS-Z001" with no services is detected as Lovense
C14_Witness ==
  /\ detPc = "done"
  /\ devName = "LVS-Z001"
  /\ devServices = {}
  /\ detResult = "lovense"

\* C15: whenever the name matches a pattern of some definition, the
\* definition detectProtocol returns is one whose own name patterns match
\* the name
C15_NameBeatsService ==
  (/\ detPc = "done"
   /\ \E k \in 1..Len(PROTOCOLS) : NameMatches(PROTOCOLS[k], devName)) =>
    \E k \in 1..Len(PROTOCOLS) :
      /\ PROTOCOLS[k].id = detResult
      /\ NameMatches(PROTOCOLS[k], devName)

\* C16: detectProtocol returns null exactly when no definition matches the
\* device
C16_NullIffNoMatch ==
  (detPc = "done") => ((detResult = NoProtocol) <=> (MatchingDefinitions = {}))

\* an unknown device with an unknown service gets null
C16_Witness ==
  /\ detPc = "done"
  /\ devName = "Unknown"
  /\ devServices = {"0000180a-0000-1000-8000-00805f9b34fb"}
  /\ detResult = NoProtocol

\* ------------------------------------------------------------------------
\* Claims about the Coyote branch of connect()
\* ------------------------------------------------------------------------
\* connect() is past the retry loop with a device of an e-stim name
CoyoteBranchTaken ==
  /\ IsCoyote(devName)
  /\ \/ connPc \in {"setup", "init", "ready"}
     \/ connPc = "raised" /\ connRaisedBy = "setup"

\* C17: for a device with an e-stim name connect() never asks the registry;
\* it settles on V3 whenever the V3 control service is exposed, on V2 when
\* it is not and a legacy service is, and otherwise it does not get past
\* the set-up: it raises
C17_GenerationSelection ==
  /\ IsCoyote(devName) => ~connConsulted
  /\ CoyoteBranchTaken =>
       LET hasV3 == V3ControlService \in devServices
           hasLegacy == V2ServiceA \in devServices \/ V2ServiceB \in devServices
       IN /\ hasV3 => connVersion = "v3"
          /\ (~hasV3 /\ hasLegacy) => connVersion = "v2"
          /\ (~hasV3 /\ ~hasLegacy) =>
               /\ connVersion = "none"
               /\ connPc \in {"setup", "raised"}

\* "D-LAB ESTIM001" exposing the V3 service next to a legacy one is
\* connected as V3
C17_Witness ==
  /\ devName = "D-LAB ESTIM001"
  /\ {V3ControlService, V2ServiceA} \subseteq devServices
  /\ connPc = "ready"
  /\ connVersion = "v3"
  /\ ~connConsulted

\* ------------------------------------------------------------------------
\* Claims about the session arcs and the session object
\* ------------------------------------------------------------------------
\* C18: every built-in session arc returns, for every progress value in
\* [0, 1], a pair with 0 <= min <= max <= 1
C18_ArcWithinUnit ==
  (arcPc = "done") =>
    /\ 0 <= arcRange.min
    /\ arcRange.min <= arcRange.max
    /\ arcRange.max <= ArcOne

\* focus_high at progress 0: the lower end is cut off at 0, the upper end
\* is one half
C18_Witness ==
  /\ arcPc = "done"
  /\ arcName = "focus_high"
  /\ arcT = 0
  /\ arcRange = [min |-> 0, max |-> ArcOne \div 2]

\* C19: in a category with more than one pattern whose instancesRemaining
\* was set to n >= 1, currentPattern stays what it was during the first
\* n - 1 advances, and the switch comes with exactly the n-th advance, to
\* another member of the pattern set, with the sample index back at 0
C19_SwitchAfterInstances ==
  \A c \in Categories :
    (Cardinality(catState[c].patterns) > 1) =>
      /\ (catObs[c].setTo >= 1) =>
           /\ catObs[c].advances < catObs[c].setTo
           /\ catState[c].currentPattern = catObs[c].setPattern
           /\ catState[c].instancesRemaining =
                catObs[c].setTo - catObs[c].advances
      /\ (catObs[c].switch.happened /\ catObs[c].switch.of >= 1) =>
           /\ catObs[c].switch.after = catObs[c].switch.of
           /\ catObs[c].switch.to \in catState[c].patterns
           /\ catObs[c].switch.to # catObs[c].switch.from
           /\ catObs[c].switch.index = 0

\* a category of three patterns that started with two instances remaining
\* has switched with its second advance
C19_Witness ==
  /\ Cardinality(catState["intensity"].patterns) = 3
  /\ catObs["intensity"].switch.happened
  /\ catObs["intensity"].switch.of = 2
  /\ catObs["intensity"].switch.after = 2
  /\ catState["intensity"].index = 0

\* C20: isSessionComplete returns true exactly when the time elapsed since
\* session.startTime is at least session.duration, whatever the step count
\* and the category states, and once it has returned true it returns true
\* at every later clock reading
C20_CompleteIffElapsed ==
  (completeAt # NotCalled) =>
    /\ completeResult <=> (completeAt - sessStart >= sessDuration)
    /\ completeBefore => completeResult

\* true is returned once the duration has elapsed, and again at a later
\* reading, after a getNextValues call
C20_Witness ==
  /\ completeBefore
  /\ completeResult
  /\ sessStep > 0
  /\ completeAt - sessStart > sessDuration

\* ------------------------------------------------------------------------
\* Claims about the Coyote encoders
\* ------------------------------------------------------------------------
\* the distance between two numbers
Distance(x, y) == IF x >= y THEN x - y ELSE y - x

\* C22: decoding the encoded frequency gives hz back for integer hz in
\* 10..100, a value less than 5 away for hz in 101..600 and less than 10
\* away for hz in 601..1000
C22_FrequencyRoundTrip ==
  (callPc = "done" /\ callFn = "encodeFrequency") =>
    LET hz == callArgs.hz
        back == DecodeFrequency(callOut)
    IN /\ (10 <= hz /\ hz <= 100) => back = hz
       /\ (101 <= hz /\ hz <= 600) => Distance(back, hz) < 5
       /\ (601 <= hz /\ hz <= 1000) => Distance(back, hz) < 10

\* 605 Hz is encoded as 201, which decodes to 610 Hz
C22_Witness ==
  /\ callPc = "done"
  /\ callFn = "encodeFrequency"
  /\ callArgs.hz = 605
  /\ callOut = 201
  /\ DecodeFrequency(callOut) = 610

\* the 24-bit value of a three-byte frame, byte 0 least significant
FrameValue(frame) == frame[1] + 256 * frame[2] + 65536 * frame[3]

\* C23: in the value formed by the three bytes of encodeV2Power(a, b), bits
\* 0-10 are b and bits 11-21 are a, for a and b in 0..2047
C23_PowerUnpacks ==
  (callPc = "done" /\ callFn = "encodeV2Power") =>
    /\ Len(callOut) = 3
    /\ \A k \in 1..3 : callOut[k] \in 0..255
    /\ FrameValue(callOut) % 2048 = callArgs.b
    /\ (FrameValue(callOut) \div 2048) % 2048 = callArgs.a
    /\ FrameValue(callOut) \div (2048 * 2048) = 0

\* a = 2047 with b = 1024 uses every bit of the a field and the top bit of
\* the b field
C23_Witness ==
  /\ callPc = "done"
  /\ callFn = "encodeV2Power"
  /\ callArgs = [a |-> 2047, b |-> 1024]
  /\ callOut = <<0, 252, 63>>

\* C24: a frame of buildB0Command has 20 bytes, the first is 0xB0, and in
\* the second bits 0-1 are modeA, bits 2-3 modeB and bits 4-7 the sequence
\* number, for modes in 0..3 and sequence numbers in 0..15
C24_ModeByteDecodes ==
  (callPc = "done" /\ callFn = "buildB0Command") =>
    /\ Len(callOut) = 20
    /\ callOut[1] = 176
    /\ callOut[2] % 4 = callArgs.modeA
    /\ (callOut[2] \div 4) % 4 = callArgs.modeB
    /\ callOut[2] \div 16 = callArgs.sequence

\* sequence 15, modeA 1, modeB 2 gives 0xF9
C24_Witness ==
  /\ callPc = "done"
  /\ callFn = "buildB0Command"
  /\ callArgs.sequence = 15
  /\ callArgs.modeA = 1
  /\ callArgs.modeB = 2
  /\ callOut[2] = 249

\* ------------------------------------------------------------------------
\* Further claims about the session object
\* ------------------------------------------------------------------------
\* C30: between getNextValues calls instancesRemaining is a positive
\* integer in every category, with one configured pattern or with several:
\* an advance that brings it to 0 or below sets the index to 0 and draws it
\* anew from minInstances..maxInstances
C30_InstancesPositive ==
  \A c \in Categories :
    catState[c].instancesRemaining >= 1

\* ------------------------------------------------------------------------
\* Claims about the session loop (main.js, runSequence and stopSequence)
\* ------------------------------------------------------------------------
\* C25: in call-and-response mode a transcript that matches no variant of
\* the prompt does not advance the loop: the step that handles it calls
\* neither getNextValues nor the device, leaves the session and
\* currentPromptIndex as they were and starts the 'Try again' wait; when
\* that wait ends while the session still runs the loop listens again, for
\* the prompt at the same currentPromptIndex
C25_NoMatchKeepsPrompt ==
  [][\A l \in LoopIds :
       /\ (loops[l].pc = "listen" /\ loops'[l].pc = "retry") =>
            /\ genParity' = genParity
            /\ nReq' = nReq
            /\ lastCall' = lastCall
            /\ active' = active
            /\ session' = session
            /\ currentPromptIndex' = currentPromptIndex
       /\ loops[l].pc = "retry" =>
            /\ loops'[l].pc \in {"retry", "listen", "done"}
            /\ (isRunning /\ session # NoSession /\ ~sessionElapsed
                   /\ listening = NoLoop) => loops'[l].pc \in {"retry", "listen"}
            /\ loops'[l].pc = "listen" =>
                  /\ genParity' = genParity
                  /\ nReq' = nReq
                  /\ currentPromptIndex' = currentPromptIndex]_vars

\* a loop is in the 'Try again' wait after an earlier prompt was matched
\* and rewarded: the index stands at the second prompt
C25_Witness ==
  /\ \E l \in LoopIds : loops[l].pc = "retry"
  /\ isRunning
  /\ currentPromptIndex = 1
  /\ genParity
  /\ stoppedLoops = {}

\* C26: a loop that was suspended when stopSequence ran never begins
\* another iteration, also when a new session has been started meanwhile
C26_StoppedLoopNeverResumes == resumedLoops = {}

\* C27: a loop of a stopped session never calls device.activate again:
\* no step takes a loop that was suspended when stopSequence ran into
\* its activation
C27_NoActivateAfterStop ==
  [][\A l \in stoppedLoops :
       ~(/\ loops[l].pc \notin {"activate", "reward"}
         /\ loops'[l].pc \in {"activate", "reward"})]_vars

\* C28: on a handle whose protocol has no sendCommand of its own, at most
\* one write to the write characteristic is awaiting its completion at any
\* time, whichever of send, activate, stop and the keepalive tick issued it
C28_OneWriteInFlight ==
  ~HasSendCommand(protocol) => Cardinality(charWrites) <= 1

\* ------------------------------------------------------------------------
\* Claims about the values getNextValues returns
\* ------------------------------------------------------------------------
\* C21: for a signal with arc constant whose pattern is constant,
\* getNextValues returns exactly the configured max of the signal, at every
\* session progress and on every tick
C21_ConstantGivesMax ==
  (/\ callPc = "done"
   /\ callFn = "getNextValues"
   /\ callArgs.arc = "constant"
   /\ callArgs.pattern = "constant") =>
     callOut = Calc(ConfiguredBound(callArgs.signal, callArgs.max))

\* C29: for a signal with min <= max the value getNextValues returns lies
\* between the configured min and the configured max, for every arc,
\* pattern, progress and tick
C29_ValueWithinRange ==
  (/\ callPc = "done"
   /\ callFn = "getNextValues"
   /\ callArgs.min <= callArgs.max) =>
     /\ FLe(Calc(ConfiguredBound(callArgs.signal, callArgs.min)), callOut)
     /\ FLe(callOut, Calc(ConfiguredBound(callArgs.signal, callArgs.max)))

\* ------------------------------------------------------------------------
\* Claims about the V2 waveform frame
\* ------------------------------------------------------------------------
\* C31: the three bytes of encodeV2Wave(x, y, z), byte 0 least significant,
\* form a 20-bit number with x in bits 0-4, y in bits 5-14 and z in bits
\* 15-19, for x and z in 0..31 and y in 0..1023
C31_WavePacks ==
  (callPc = "done" /\ callFn = "encodeV2Wave") =>
    /\ Len(callOut) = 3
    /\ \A k \in 1..3 : callOut[k] \in 0..255
    /\ FrameValue(callOut) % 32 = callArgs.x
    /\ (FrameValue(callOut) \div 32) % 1024 = callArgs.y
    /\ (FrameValue(callOut) \div 32768) % 32 = callArgs.z
    /\ FrameValue(callOut) \div Pow2(20) = 0

\* ------------------------------------------------------------------------
\* Claims about characteristic discovery and protocol init
\* ------------------------------------------------------------------------
\* the characteristics of the service connect() took as its target
TargetChars == suServices[targetService].chars

\* C32: for a device without a Coyote name connect() takes as target the
\* first exposed service that is not Generic Access / Generic Attribute,
\* never a generic one; it selects the first characteristic of that service
\* advertising write or write-without-response, and raises when the service
\* has none
C32_TargetsFirstNonGeneric ==
  (suDevice = "vibrator" /\ targetService # NoService) =>
    /\ NonGeneric(suServices[targetService])
    /\ \A j \in 1..(targetService - 1) : IsGeneric(suServices[j])
    /\ suPc \in {"init", "ready"} =>
         /\ IsWritable(writeChar)
         /\ \E k \in 1..Len(TargetChars) :
              /\ TargetChars[k] = writeChar
              /\ \A j \in 1..(k - 1) : ~IsWritable(TargetChars[j])
    /\ (\A k \in 1..Len(TargetChars) : ~IsWritable(TargetChars[k])) =>
         suPc \in {"chars", "raised"}

\* C33: protocol.init never raises; when a write it performs fails it
\* returns false, it returns true only when its writes succeeded, and
\* connect() completes with a handle that accepts commands
C33_InitReportsFailure ==
  /\ initResult # "none" => suPc = "ready"
  /\ (suPc = "ready" /\ initStep < Len(InitWrites(suProtocol))) =>
       initResult = "false"
  /\ initResult = "true" => initStep = Len(InitWrites(suProtocol))
  /\ suPc = "ready" => \A op \in {"send", "stop"} : ENABLED CommandWrite(op)

\* C34: every write on a legacy (V2) connection, from init, send, the
\* keepalive and stop, is a write-without-response, and every command write
\* on a modern (V3) connection is an acknowledged write when the command
\* characteristic advertises write (without that property writeToChar
\* falls back to write-without-response)
C34_WriteMethodByGeneration ==
  \A w \in suWrites :
    /\ suVersion = "v2" => w.method = "writeValueWithoutResponse"
    /\ (suVersion = "v3" /\ w.phase \in HandleOps) =>
         w.method = IF writeChar.write THEN "writeValue"
                    ELSE "writeValueWithoutResponse"

\* a V3 connection whose command characteristic advertises write has sent,
\* kept alive and stopped, each with an acknowledged write
C34_Witness ==
  /\ suVersion = "v3"
  /\ writeChar.write
  /\ \A op \in HandleOps :
       Written(op, writeChar, "writeValue") \in suWrites

\* C34 as stated: on a V3 connection every command write is acknowledged
C34_Original ==
  \A w \in suWrites :
    /\ suVersion = "v2" => w.method = "writeValueWithoutResponse"
    /\ (suVersion = "v3" /\ w.phase \in HandleOps) =>
         w.method = "writeValue"

\* the characteristics with the given uuid in the legacy services whose
\* enumeration succeeded
FoundChars(uuid) ==
  UNION {{V2Services(suServices)[k].chars[j] :
            j \in {j \in 1..Len(V2Services(suServices)[k].chars) :
                     V2Services(suServices)[k].chars[j].uuid = uuid}} :
           k \in scanned}

\* C35: a legacy (V2) connection scans every legacy service present, goes
\* on past a service that cannot be enumerated, and holds the power and
\* waveform characteristics found in any of them; it succeeds only if a
\* writable power characteristic was found in a scanned service and raises
\* otherwise
C35_ScanRequiresWritablePower ==
  (suDevice = "coyote" /\ suIndex > 0 /\ suPc # "scan") =>
    /\ suIndex = Len(V2Services(suServices))
    /\ powerChar = NoChar <=> FoundChars(V2Power) = {}
    /\ powerChar # NoChar => powerChar \in FoundChars(V2Power)
    /\ waveAChar = NoChar <=> FoundChars(V2WaveA) = {}
    /\ waveBChar = NoChar <=> FoundChars(V2WaveB) = {}
    /\ suVersion = "v2" <=> \E c \in FoundChars(V2Power) : IsWritable(c)
    /\ suVersion # "v2" => suPc = "raised"

\* ------------------------------------------------------------------------
\* Further claims about the pattern switch, the session loop, the keepalive
\* timer and the legacy stop
\* ------------------------------------------------------------------------
\* C36: in a category with more than one pattern, with integer settings
\* 1 <= minInstances <= maxInstances, the number of advances from the
\* creation of the session to the first pattern switch, and from one switch
\* to the next, is at least minInstances and at most maxInstances: fewer
\* than maxInstances advances have passed since the count was last set
\* without a switch, and every switch came after minInstances..maxInstances
\* advances
C36_SwitchWithinInstances ==
  \A c \in Categories :
    (Cardinality(catState[c].patterns) > 1) =>
      /\ catObs[c].advances < MaxInstances
      /\ catObs[c].switch.happened =>
           catObs[c].switch.after \in MinInstances..MaxInstances

\* a write issued by a keepalive tick fails in this step
KeepaliveWriteFails ==
  \/ \E w \in charWrites :
       /\ w.op = "tick"
       /\ charWrites' = charWrites \ {w}
       /\ hEvent' = "tickDone"
       /\ doneInfo'.writeFailed
  \/ \E c \in v2Calls :
       /\ c.kind = "send"
       /\ c.owner.via = "tick"
       /\ c \notin v2Calls'
       /\ hEvent' = "tickDone"
       /\ doneInfo'.writeFailed

StopWaits(id) ==
  \E c \in v2Calls : c.id = id /\ c.kind = "stop" /\ c.pc = "poll"
StopWrites(id) ==
  \E c \in v2Calls : c.id = id /\ c.kind = "stop" /\ c.pc = "power"

\* C39: when every write settles, a stopCommand that waits for the lock
\* gets to issue its zero-power write, and a stopCommand whose write is in
\* flight returns, whatever send requests and pending values arrive in the
\* meantime
C39_StopCompletes ==
  \A id \in 1..MaxInProgress :
    /\ StopWaits(id) ~> StopWrites(id)
    /\ StopWrites(id) ~> ~StopWrites(id)

\* loop l is inside runSequence
InCycle(l) == loops[l].pc \notin {"idle", "done"}

\* no further handle call is followed
CallsSpent == nReq >= MaxHandleCalls

\* the listen() promise loop l awaits was dropped by listener.stop(): it
\* never settles
ListenDropped(l) == loops[l].pc = "listen" /\ listening # l

\* C37: once the duration of the running session has elapsed, a loop that
\* comes round to the head of the while loop starts no new cycle: it
\* reports the session complete and runs the teardown (isRunning false,
\* session null, the listener stopped); and with every awaited operation
\* settling, a loop that is in a cycle when the duration has elapsed gets
\* out of runSequence, unless stopSequence dropped the listen() it awaits
C37_LoopEndsWhenTimeIsUp ==
  /\ [][\A l \in LoopIds :
          (/\ loops[l].pc \in {"delay", "retry"}
           /\ loops'[l] # loops[l]
           /\ isRunning
           /\ session # NoSession
           /\ sessionElapsed) =>
            /\ loops'[l].pc = "done"
            /\ ~loops'[l].exc
            /\ session \in completedSessions'
            /\ ~isRunning'
            /\ session' = NoSession
            /\ listening' = NoLoop]_vars
  /\ \A l \in LoopIds :
       (InCycle(l) /\ isRunning /\ sessionElapsed) ~>
         (\/ ~InCycle(l)
          \/ ListenDropped(l)
          \/ CallsSpent)

\* a loop has ended by reporting its session complete while further
\* handle calls could still be followed
C37_Witness ==
  /\ \E l \in LoopIds : loops[l].pc = "done" /\ ~loops[l].exc
  /\ completedSessions # {}
  /\ stoppedLoops = {}
  /\ ~isRunning
  /\ session = NoSession
  /\ ~CallsSpent
====
